---- MODULE Spec2Model ----
(***************************************************************************)
(* The row-type / proof-type "Selectors" gate of the MPT circuit           *)
(* (mpt_circuit/selectors.rs) and the account leaf gadget                  *)
(* (mpt_circuit/account_leaf.rs), as constraint systems over the rows of   *)
(* the witness table.                                                      *)
(*                                                                         *)
(* A cell holds a field element.  Every value that occurs here is far      *)
(* below the field's modulus, and both the field and the integers have no  *)
(* zero divisors, so a polynomial identity "p = 0" of the gate is the same *)
(* identity over the integers.                                             *)
(***************************************************************************)
EXTENDS Integers, Sequences, FiniteSets, TLC

VARIABLES
  prev,         \* the row at Rotation::prev() of the row the gate is at
  cur,          \* the row at Rotation::cur()
  leaf_offset,  \* rows since the last account leaf key S row (RegionRows: none open)
  proof_start,  \* the proof-type flags on the first row of the current proof
  key_memory,   \* the key memory channel of each side: the KeyData stored so far
  leaf,         \* the cells of the account leaf gadget, per side
  parent_memory, \* the parent memory channel of each side: the ParentData stored so far
  account,      \* the cells of the account leaf shared by the sides: flags, mpt_table
  pv,           \* witness assignment: pv.memory and the cells assign has written
  rlc_run       \* the bytes given to the RLC computations and what they compute

selector_vars == <<prev, cur, leaf_offset, proof_start>>

leaf_vars == <<key_memory, leaf, parent_memory, account, pv>>

rlc_vars == <<rlc_run>>

vars ==
  <<prev, cur, leaf_offset, proof_start, key_memory, leaf, parent_memory, account, pv, rlc_run>>

-----------------------------------------------------------------------------
(* Bounds *)

\* Largest value tried in a selector cell.
CellMax == 2

\* Largest value tried in the proof_type id cell.
IdMax == 8

\* How far from 0 and from the full key length the loaded nibble counts range.
NibbleSpan == 2

\* Largest RLC value tried in a cell of the account leaf.
RlcMax == 1

\* Largest number of bytes tried for the encoded nonce and balance.
LenMax == 2

\* The largest base_offset of the leaf tried in a witness.
OffsetMax == 3

\* The largest seed of the byte patterns the RLC of the leaf is computed on.
SeedMax == 2

\* The largest length of the byte sequences whose RLCs are compared.
SeqLenMax == 3

-----------------------------------------------------------------------------
(* selectors.rs: the columns *)

row_type_selectors ==
  << "is_branch_init", "is_branch_child", "is_extension_node_s",
     "is_extension_node_c", "is_leaf_s_key", "is_leaf_c_key",
     "is_leaf_s_value", "is_leaf_c_value", "is_leaf_in_added_branch",
     "is_non_existing_storage_row", "is_account_leaf_key_s",
     "is_account_leaf_key_c", "is_non_existing_account_row",
     "is_account_leaf_nonce_balance_s", "is_account_leaf_nonce_balance_c",
     "is_account_leaf_storage_codehash_s", "is_account_leaf_storage_codehash_c",
     "is_account_leaf_in_added_branch" >>

proof_type_selectors ==
  << "is_nonce_mod", "is_balance_mod", "is_codehash_mod",
     "is_non_existing_account_proof", "is_account_delete_mod",
     "is_storage_mod", "is_non_existing_storage_proof" >>

proof_type_lookup_row_types ==
  << "is_account_leaf_nonce_balance_s", "is_account_leaf_nonce_balance_c",
     "is_account_leaf_storage_codehash_c", "is_non_existing_account_row",
     "is_account_leaf_key_s", "is_leaf_c_value",
     "is_non_existing_storage_row" >>

\* is_leaf_non_existing and is_non_existing_storage_row query the same
\* column, storage_leaf.is_non_existing.
is_leaf_non_existing == "is_non_existing_storage_row"

Range(s) == {s[i] : i \in DOMAIN s}

RowTypes == Range(row_type_selectors)

ProofTypes == Range(proof_type_selectors)

MiscCols ==
  {"not_first_level", "is_last_branch_child", "sel1", "sel2",
   "is_modified", "is_at_drifted_pos"}

-----------------------------------------------------------------------------
(* The constraint builder's expressions and requirements *)

RECURSIVE SumFirst(_, _)
SumFirst(s, n) == IF n = 0 THEN 0 ELSE s[n] + SumFirst(s, n - 1)

RECURSIVE ProdFirst(_, _)
ProdFirst(s, n) == IF n = 0 THEN 1 ELSE s[n] * ProdFirst(s, n - 1)

\* sum::expr over a sequence of expressions.
SumSeq(s) == SumFirst(s, Len(s))

ProdSeq(s) == ProdFirst(s, Len(s))

not(x) == 1 - x

and(s) == ProdSeq(s)

or(s) == 1 - ProdSeq([i \in DOMAIN s |-> 1 - s[i]])

\* require!(x => bool) inside ifx!{cond}: cond * x * (1 - x) = 0.
RequireBool(cond, x) == cond * (x * (1 - x)) = 0

\* require!(lhs => rhs) inside ifx!{cond}: cond * (lhs - rhs) = 0.
RequireEqual(cond, lhs, rhs) == cond * (lhs - rhs) = 0

\* require!(value => {set}) inside ifx!{cond}: cond * prod(value - set[i]) = 0.
RequireInSet(cond, value, set) ==
  cond * ProdSeq([i \in DOMAIN set |-> value - set[i]]) = 0

-----------------------------------------------------------------------------
(* selectors.rs: the gate "Selectors" *)

misc_selectors(c) ==
  << c["not_first_level"], c["is_last_branch_child"],
     c["is_branch_child"] * c["sel1"], c["is_branch_child"] * c["sel2"],
     c["is_modified"], c["is_at_drifted_pos"] >>

\* Mutant: the boolean checks leave out the miscellaneous selectors.
BooleanChecksNoMisc(c) ==
  /\ \A i \in DOMAIN row_type_selectors :
        RequireBool(c["q_enable"], c[row_type_selectors[i]])
  /\ \A i \in DOMAIN proof_type_selectors :
        RequireBool(c["q_enable"], c[proof_type_selectors[i]])

\* All selectors are boolean.
BooleanChecks(c) ==
  /\ LET misc == misc_selectors(c)
     IN \A i \in DOMAIN misc : RequireBool(c["q_enable"], misc[i])
  /\ \A i \in DOMAIN row_type_selectors :
        RequireBool(c["q_enable"], c[row_type_selectors[i]])
  /\ \A i \in DOMAIN proof_type_selectors :
        RequireBool(c["q_enable"], c[proof_type_selectors[i]])

\* Mutant: the sum of the row-type selectors is only required to be boolean.
RowTypeSumBool(c) ==
  RequireBool(c["q_enable"],
              SumSeq([i \in DOMAIN row_type_selectors |-> c[row_type_selectors[i]]]))

\* The type of the row needs to be set.
RowTypeSum(c) ==
  RequireEqual(c["q_enable"],
               SumSeq([i \in DOMAIN row_type_selectors |-> c[row_type_selectors[i]]]), 1)

\* Mutant: the sum of the proof-type selectors is only required to be boolean.
ProofTypeSumBool(c) ==
  RequireBool(c["q_enable"],
              SumSeq([i \in DOMAIN proof_type_selectors |-> c[proof_type_selectors[i]]]))

\* The type of the proof needs to be set.
ProofTypeSum(c) ==
  RequireEqual(c["q_enable"],
               SumSeq([i \in DOMAIN proof_type_selectors |-> c[proof_type_selectors[i]]]), 1)

\* Mutant: the expected id is the 0-based index of the proof type.
ProofTypeLookupRowsZeroBased(c) ==
  \A idx \in DOMAIN proof_type_selectors :
    LET proof_type == c[proof_type_selectors[idx]]
        row_type == c[proof_type_lookup_row_types[idx]]
    IN /\ RequireEqual(c["q_enable"],
                       c["proof_type"] * proof_type * (row_type - 1), 0)
       /\ RequireEqual(c["q_enable"] * and(<<c["proof_type"], row_type>>),
                       c["proof_type"], idx - 1)

\* The proof type id is 0 everywhere except on the lookup row of the proof
\* type, where it is the expected value.  The Rust idx counts from 0 and the
\* expected value is idx + 1; idx here counts from 1.
ProofTypeLookupRows(c) ==
  \A idx \in DOMAIN proof_type_selectors :
    LET proof_type == c[proof_type_selectors[idx]]
        row_type == c[proof_type_lookup_row_types[idx]]
    IN /\ RequireEqual(c["q_enable"],
                       c["proof_type"] * proof_type * (row_type - 1), 0)
       /\ RequireEqual(c["q_enable"] * and(<<c["proof_type"], row_type>>),
                       c["proof_type"], idx)

\* Mutant: the first-row block is scoped by q_not_first, not by its negation.
FirstRowNotNegated(c) ==
  RequireEqual(c["q_enable"] * c["q_not_first"],
               or(<<c["is_account_leaf_key_s"], c["is_branch_init"]>>), 1)

\* In the first row only account leaf key S row or branch init row can occur.
FirstRow(c) ==
  RequireEqual(c["q_enable"] * not(c["q_not_first"]),
               or(<<c["is_account_leaf_key_s"], c["is_branch_init"]>>), 1)

\* One entry of the transitions array: condition (a column of the current
\* row, or "1"), from (columns of the previous row), to (a column of the
\* current row).
Tr(condition, from, to) == [condition |-> condition, from |-> from, to |-> to]

\* Mutant: branch init also lists the branch child row as a predecessor.
transitions_branch_child_to_init ==
  << Tr("1", <<"is_extension_node_c", "is_account_leaf_in_added_branch",
               is_leaf_non_existing, "is_branch_child">>, "is_branch_init"),
     Tr("is_account_leaf_key_s", <<"is_extension_node_c", is_leaf_non_existing>>,
        "is_account_leaf_key_s"),
     Tr("is_leaf_s_key", <<"is_extension_node_c", "is_account_leaf_in_added_branch">>,
        "is_leaf_s_key"),
     Tr("1", <<"is_last_branch_child">>, "is_extension_node_s"),
     Tr("1", <<"is_extension_node_s">>, "is_extension_node_c"),
     Tr("1", <<"is_account_leaf_key_s">>, "is_account_leaf_key_c"),
     Tr("1", <<"is_account_leaf_key_c">>, "is_non_existing_account_row"),
     Tr("1", <<"is_non_existing_account_row">>, "is_account_leaf_nonce_balance_s"),
     Tr("1", <<"is_account_leaf_nonce_balance_s">>, "is_account_leaf_nonce_balance_c"),
     Tr("1", <<"is_account_leaf_nonce_balance_c">>, "is_account_leaf_storage_codehash_s"),
     Tr("1", <<"is_account_leaf_storage_codehash_s">>, "is_account_leaf_storage_codehash_c"),
     Tr("1", <<"is_account_leaf_storage_codehash_c">>, "is_account_leaf_in_added_branch"),
     Tr("1", <<"is_leaf_s_key">>, "is_leaf_s_value"),
     Tr("1", <<"is_leaf_s_value">>, "is_leaf_c_key"),
     Tr("1", <<"is_leaf_c_key">>, "is_leaf_c_value"),
     Tr("1", <<"is_leaf_c_value">>, "is_leaf_in_added_branch"),
     Tr("1", <<"is_leaf_in_added_branch">>, is_leaf_non_existing) >>

\* Mutant: the non existing account row and the nonce balance S row change
\* places in the account leaf.
transitions_rows_swapped ==
  << Tr("1", <<"is_extension_node_c", "is_account_leaf_in_added_branch",
               is_leaf_non_existing>>, "is_branch_init"),
     Tr("is_account_leaf_key_s", <<"is_extension_node_c", is_leaf_non_existing>>,
        "is_account_leaf_key_s"),
     Tr("is_leaf_s_key", <<"is_extension_node_c", "is_account_leaf_in_added_branch">>,
        "is_leaf_s_key"),
     Tr("1", <<"is_last_branch_child">>, "is_extension_node_s"),
     Tr("1", <<"is_extension_node_s">>, "is_extension_node_c"),
     Tr("1", <<"is_account_leaf_key_s">>, "is_account_leaf_key_c"),
     Tr("1", <<"is_account_leaf_key_c">>, "is_account_leaf_nonce_balance_s"),
     Tr("1", <<"is_account_leaf_nonce_balance_s">>, "is_non_existing_account_row"),
     Tr("1", <<"is_non_existing_account_row">>, "is_account_leaf_nonce_balance_c"),
     Tr("1", <<"is_account_leaf_nonce_balance_c">>, "is_account_leaf_storage_codehash_s"),
     Tr("1", <<"is_account_leaf_storage_codehash_s">>, "is_account_leaf_storage_codehash_c"),
     Tr("1", <<"is_account_leaf_storage_codehash_c">>, "is_account_leaf_in_added_branch"),
     Tr("1", <<"is_leaf_s_key">>, "is_leaf_s_value"),
     Tr("1", <<"is_leaf_s_value">>, "is_leaf_c_key"),
     Tr("1", <<"is_leaf_c_key">>, "is_leaf_c_value"),
     Tr("1", <<"is_leaf_c_value">>, "is_leaf_in_added_branch"),
     Tr("1", <<"is_leaf_in_added_branch">>, is_leaf_non_existing) >>

\* Mutant: a storage leaf may also follow the last row of a storage leaf.
transitions_leaf_after_leaf ==
  << Tr("1", <<"is_extension_node_c", "is_account_leaf_in_added_branch",
               is_leaf_non_existing>>, "is_branch_init"),
     Tr("is_account_leaf_key_s", <<"is_extension_node_c", is_leaf_non_existing>>,
        "is_account_leaf_key_s"),
     Tr("is_leaf_s_key", <<"is_extension_node_c", "is_account_leaf_in_added_branch",
                           is_leaf_non_existing>>,
        "is_leaf_s_key"),
     Tr("1", <<"is_last_branch_child">>, "is_extension_node_s"),
     Tr("1", <<"is_extension_node_s">>, "is_extension_node_c"),
     Tr("1", <<"is_account_leaf_key_s">>, "is_account_leaf_key_c"),
     Tr("1", <<"is_account_leaf_key_c">>, "is_non_existing_account_row"),
     Tr("1", <<"is_non_existing_account_row">>, "is_account_leaf_nonce_balance_s"),
     Tr("1", <<"is_account_leaf_nonce_balance_s">>, "is_account_leaf_nonce_balance_c"),
     Tr("1", <<"is_account_leaf_nonce_balance_c">>, "is_account_leaf_storage_codehash_s"),
     Tr("1", <<"is_account_leaf_storage_codehash_s">>, "is_account_leaf_storage_codehash_c"),
     Tr("1", <<"is_account_leaf_storage_codehash_c">>, "is_account_leaf_in_added_branch"),
     Tr("1", <<"is_leaf_s_key">>, "is_leaf_s_value"),
     Tr("1", <<"is_leaf_s_value">>, "is_leaf_c_key"),
     Tr("1", <<"is_leaf_c_key">>, "is_leaf_c_value"),
     Tr("1", <<"is_leaf_c_value">>, "is_leaf_in_added_branch"),
     Tr("1", <<"is_leaf_in_added_branch">>, is_leaf_non_existing) >>

\* Mutant: an account leaf may also follow the last row of an account leaf.
transitions_account_after_account ==
  << Tr("1", <<"is_extension_node_c", "is_account_leaf_in_added_branch",
               is_leaf_non_existing>>, "is_branch_init"),
     Tr("is_account_leaf_key_s", <<"is_extension_node_c", is_leaf_non_existing,
                                   "is_account_leaf_in_added_branch">>,
        "is_account_leaf_key_s"),
     Tr("is_leaf_s_key", <<"is_extension_node_c", "is_account_leaf_in_added_branch">>,
        "is_leaf_s_key"),
     Tr("1", <<"is_last_branch_child">>, "is_extension_node_s"),
     Tr("1", <<"is_extension_node_s">>, "is_extension_node_c"),
     Tr("1", <<"is_account_leaf_key_s">>, "is_account_leaf_key_c"),
     Tr("1", <<"is_account_leaf_key_c">>, "is_non_existing_account_row"),
     Tr("1", <<"is_non_existing_account_row">>, "is_account_leaf_nonce_balance_s"),
     Tr("1", <<"is_account_leaf_nonce_balance_s">>, "is_account_leaf_nonce_balance_c"),
     Tr("1", <<"is_account_leaf_nonce_balance_c">>, "is_account_leaf_storage_codehash_s"),
     Tr("1", <<"is_account_leaf_storage_codehash_s">>, "is_account_leaf_storage_codehash_c"),
     Tr("1", <<"is_account_leaf_storage_codehash_c">>, "is_account_leaf_in_added_branch"),
     Tr("1", <<"is_leaf_s_key">>, "is_leaf_s_value"),
     Tr("1", <<"is_leaf_s_value">>, "is_leaf_c_key"),
     Tr("1", <<"is_leaf_c_key">>, "is_leaf_c_value"),
     Tr("1", <<"is_leaf_c_value">>, "is_leaf_in_added_branch"),
     Tr("1", <<"is_leaf_in_added_branch">>, is_leaf_non_existing) >>

\* Mutant: the transition into extension node C is required only of an
\* extension node C row.
transitions_ext_c_conditional ==
  << Tr("1", <<"is_extension_node_c", "is_account_leaf_in_added_branch",
               is_leaf_non_existing>>, "is_branch_init"),
     Tr("is_account_leaf_key_s", <<"is_extension_node_c", is_leaf_non_existing>>,
        "is_account_leaf_key_s"),
     Tr("is_leaf_s_key", <<"is_extension_node_c", "is_account_leaf_in_added_branch">>,
        "is_leaf_s_key"),
     Tr("1", <<"is_last_branch_child">>, "is_extension_node_s"),
     Tr("is_extension_node_c", <<"is_extension_node_s">>, "is_extension_node_c"),
     Tr("1", <<"is_account_leaf_key_s">>, "is_account_leaf_key_c"),
     Tr("1", <<"is_account_leaf_key_c">>, "is_non_existing_account_row"),
     Tr("1", <<"is_non_existing_account_row">>, "is_account_leaf_nonce_balance_s"),
     Tr("1", <<"is_account_leaf_nonce_balance_s">>, "is_account_leaf_nonce_balance_c"),
     Tr("1", <<"is_account_leaf_nonce_balance_c">>, "is_account_leaf_storage_codehash_s"),
     Tr("1", <<"is_account_leaf_storage_codehash_s">>, "is_account_leaf_storage_codehash_c"),
     Tr("1", <<"is_account_leaf_storage_codehash_c">>, "is_account_leaf_in_added_branch"),
     Tr("1", <<"is_leaf_s_key">>, "is_leaf_s_value"),
     Tr("1", <<"is_leaf_s_value">>, "is_leaf_c_key"),
     Tr("1", <<"is_leaf_c_key">>, "is_leaf_c_value"),
     Tr("1", <<"is_leaf_c_value">>, "is_leaf_in_added_branch"),
     Tr("1", <<"is_leaf_in_added_branch">>, is_leaf_non_existing) >>

\* State transitions.
transitions ==
  << \* Last branch row/last storage leaf/last account leaf -> branch init
     Tr("1", <<"is_extension_node_c", "is_account_leaf_in_added_branch",
               is_leaf_non_existing>>, "is_branch_init"),
     \* Last branch row/last storage leaf -> account leaf key S
     Tr("is_account_leaf_key_s", <<"is_extension_node_c", is_leaf_non_existing>>,
        "is_account_leaf_key_s"),
     \* Last branch row/last account leaf -> storage leaf key S
     Tr("is_leaf_s_key", <<"is_extension_node_c", "is_account_leaf_in_added_branch">>,
        "is_leaf_s_key"),
     \* Last branch row -> extension node S
     Tr("1", <<"is_last_branch_child">>, "is_extension_node_s"),
     \* Extension node S -> extension node C
     Tr("1", <<"is_extension_node_s">>, "is_extension_node_c"),
     \* Account leaf key S -> account leaf key C
     Tr("1", <<"is_account_leaf_key_s">>, "is_account_leaf_key_c"),
     \* Account leaf key C -> non existing account row
     Tr("1", <<"is_account_leaf_key_c">>, "is_non_existing_account_row"),
     \* Non existing account row -> account leaf nonce balance S
     Tr("1", <<"is_non_existing_account_row">>, "is_account_leaf_nonce_balance_s"),
     \* Account leaf nonce balance S -> account leaf nonce balance C
     Tr("1", <<"is_account_leaf_nonce_balance_s">>, "is_account_leaf_nonce_balance_c"),
     \* Account leaf nonce balance C -> account leaf storage codehash S
     Tr("1", <<"is_account_leaf_nonce_balance_c">>, "is_account_leaf_storage_codehash_s"),
     \* Account leaf storage codehash S -> account leaf storage codehash C
     Tr("1", <<"is_account_leaf_storage_codehash_s">>, "is_account_leaf_storage_codehash_c"),
     \* Account leaf storage codehash C -> account leaf added in branch
     Tr("1", <<"is_account_leaf_storage_codehash_c">>, "is_account_leaf_in_added_branch"),
     \* Storage leaf key S -> storage leaf value S
     Tr("1", <<"is_leaf_s_key">>, "is_leaf_s_value"),
     \* Storage leaf value S -> storage leaf key C
     Tr("1", <<"is_leaf_s_value">>, "is_leaf_c_key"),
     \* Storage leaf key C -> storage leaf value C
     Tr("1", <<"is_leaf_c_key">>, "is_leaf_c_value"),
     \* Storage leaf value C -> storage leaf in added branch
     Tr("1", <<"is_leaf_c_value">>, "is_leaf_in_added_branch"),
     \* Storage leaf in added branch -> storage leaf non existing row
     Tr("1", <<"is_leaf_in_added_branch">>, is_leaf_non_existing) >>

\* The value of a transition's condition on the current row.
Condition(c, condition) == IF condition = "1" THEN 1 ELSE c[condition]

\* Mutant: the transitions are scoped by not_first_level as well.
StateTransitionsNotFirstLevel(p, c) ==
  \A i \in DOMAIN transitions :
    LET tr == transitions[i]
    IN RequireInSet(c["q_not_first"] * c["not_first_level"] * Condition(c, tr.condition),
                    c[tr.to],
                    [k \in DOMAIN tr.from |-> p[tr.from[k]]])

\* for (name, condition, from, to) in transitions:
\*   ifx!{condition => { require!(name, to => {from}) }}, inside ifx!{q_not_first}.
StateTransitions(p, c) ==
  \A i \in DOMAIN transitions :
    LET tr == transitions[i]
    IN RequireInSet(c["q_not_first"] * Condition(c, tr.condition),
                    c[tr.to],
                    [k \in DOMAIN tr.from |-> p[tr.from[k]]])

\* Mutant: inside the first level the flags are not held at all.
DataTransitionsFirstLevelFree(p, c) ==
  \A i \in DOMAIN proof_type_selectors :
    LET data == proof_type_selectors[i]
    IN RequireEqual(c["q_not_first"] * c["not_first_level"], p[data], c[data])

\* Mutant: inside the first level the flags may change on the account leaf
\* key C row instead of the key S row.
DataTransitionsKeyCFree(p, c) ==
  \A i \in DOMAIN proof_type_selectors :
    LET data == proof_type_selectors[i]
    IN /\ RequireEqual(c["q_not_first"] * c["not_first_level"], p[data], c[data])
       /\ RequireEqual(c["q_not_first"] * not(c["not_first_level"])
                         * and(<<not(c["is_branch_init"]),
                                 not(c["is_account_leaf_key_c"])>>),
                       p[data], c[data])

\* Data transitions: the proof-type flags do not change outside the first
\* level, and inside the first level only on a branch init or account leaf
\* key S row.
DataTransitions(p, c) ==
  \A i \in DOMAIN proof_type_selectors :
    LET data == proof_type_selectors[i]
    IN /\ RequireEqual(c["q_not_first"] * c["not_first_level"], p[data], c[data])
       /\ RequireEqual(c["q_not_first"] * not(c["not_first_level"])
                         * and(<<not(c["is_branch_init"]),
                                 not(c["is_account_leaf_key_s"])>>),
                       p[data], c[data])

\* The gate at the row c whose previous row is p: every constraint the
\* builder collected holds.
Gate(p, c) ==
  /\ BooleanChecks(c)
  /\ RowTypeSum(c)
  /\ ProofTypeSum(c)
  /\ ProofTypeLookupRows(c)
  /\ FirstRow(c)
  /\ StateTransitions(p, c)
  /\ DataTransitions(p, c)

-----------------------------------------------------------------------------
(* The rows the table is filled with *)

\* A row is a record of its cells, one field per column; here all cells 0.
ZeroRow ==
  [q_enable |-> 0, q_not_first |-> 0, proof_type |-> 0,
    not_first_level |-> 0, is_last_branch_child |-> 0, sel1 |-> 0,
    sel2 |-> 0, is_modified |-> 0, is_at_drifted_pos |-> 0,
    is_branch_init |-> 0, is_branch_child |-> 0, is_extension_node_s |-> 0,
    is_extension_node_c |-> 0, is_leaf_s_key |-> 0, is_leaf_c_key |-> 0,
    is_leaf_s_value |-> 0, is_leaf_c_value |-> 0,
    is_leaf_in_added_branch |-> 0, is_non_existing_storage_row |-> 0,
    is_account_leaf_key_s |-> 0, is_account_leaf_key_c |-> 0,
    is_non_existing_account_row |-> 0, is_account_leaf_nonce_balance_s |-> 0,
    is_account_leaf_nonce_balance_c |-> 0,
    is_account_leaf_storage_codehash_s |-> 0,
    is_account_leaf_storage_codehash_c |-> 0,
    is_account_leaf_in_added_branch |-> 0, is_nonce_mod |-> 0,
    is_balance_mod |-> 0, is_codehash_mod |-> 0,
    is_non_existing_account_proof |-> 0, is_account_delete_mod |-> 0,
    is_storage_mod |-> 0, is_non_existing_storage_proof |-> 0 ]

RECURSIVE WithCols(_, _, _)
WithCols(r, f, cs) ==
  IF cs = {} THEN r
  ELSE LET col == CHOOSE x \in cs : TRUE
       IN WithCols([r EXCEPT ![col] = f[col]], f, cs \ {col})

\* The row r with the cells of f overwritten.
With(r, f) == WithCols(r, f, DOMAIN f)

\* The assignments tried for one group of selector columns: none set, one
\* set to a value in 1..CellMax, or two set to 1.
GroupCells(cols) ==
  {[col \in {} |-> 0]}
  \cup {[col \in {a} |-> v] : a \in cols, v \in 1..CellMax}
  \cup {[col \in {a, b} |-> 1] : a \in cols, b \in cols}

RowTypeCells == GroupCells(RowTypes)

ProofTypeCells == GroupCells(ProofTypes)

\* The table scan varies not_first_level and is_last_branch_child, the two
\* miscellaneous selectors the transitions read.
ScanMisc ==
  {[col \in {"not_first_level", "is_last_branch_child"} |->
      IF col = "not_first_level" THEN a ELSE b] : a \in 0..CellMax, b \in 0..CellMax}

\* The single-row check varies all six miscellaneous columns.
CellMisc == GroupCells(MiscCols)

\* The fixed columns: q_enable is set on every row of the table and
\* q_not_first on every row but the first.
FixedCells(qnf) ==
  [col \in {"q_enable", "q_not_first"} |-> IF col = "q_enable" THEN 1 ELSE qnf]

\* The rows c, q_not_first = qnf, with Gate(p, c).  The cells are chosen
\* group by group, and a constraint is evaluated as soon as the cells it
\* reads are chosen; every row returned satisfies the whole gate.
NextRows(p, qnf, misc) ==
  LET r0 == With(ZeroRow, FixedCells(qnf))
      S1 == {r \in {With(r0, T) : T \in RowTypeCells} :
               RowTypeSum(r) /\ FirstRow(r) /\ StateTransitions(p, r)}
      S2 == {r \in UNION {{With(r1, P) : P \in ProofTypeCells} : r1 \in S1} :
               ProofTypeSum(r)}
      S3 == {r \in UNION {{With(r2, M) : M \in misc} : r2 \in S2} :
               BooleanChecks(r) /\ DataTransitions(p, r)}
  IN {c \in UNION {{With(r3, [col \in {"proof_type"} |-> id]) : id \in 0..IdMax} :
                     r3 \in S3} :
        Gate(p, c)}

\* What Rotation::prev() reads on the first row: the last row of the
\* columns, which no constraint of this gate restricts.
WrapRows == {ZeroRow} \cup {With(ZeroRow, [col \in {t} |-> 1]) : t \in RowTypes}

\* The previous rows of the single-row check: one row type, one proof type,
\* is_last_branch_child set or not.
PrevRows ==
  {With(With(ZeroRow, FixedCells(1)),
        [col \in {t, pt, "is_last_branch_child"} |->
           IF col = "is_last_branch_child" THEN l ELSE 1]) :
     t \in RowTypes, pt \in ProofTypes, l \in 0..1}

\* The row-type columns set on the row c.
RowTypeOf(c) == {t \in RowTypes : c[t] # 0}

\* The proof-type flags of the row c.
ProofTypeOf(c) == [t \in ProofTypes |-> c[t]]

-----------------------------------------------------------------------------
(* account_leaf.rs: the rows of the account leaf *)

\* The row offsets AccountLeafConfig::configure reads, relative to the row
\* the gadget is at (the key C row).
configure_offsets ==
  [ key_s |-> -1, key_c |-> 0, wrong |-> 1,
    nonce_balance_s |-> 2, nonce_balance_c |-> 3,
    storage_codehash_s |-> 4, storage_codehash_c |-> 5, drifted |-> 6 ]

\* The witness rows AccountLeafConfig::assign reads, relative to base_offset.
assign_offsets ==
  [ key_s |-> -1, key_c |-> 0, wrong |-> 1,
    nonce_balance_s |-> 2, nonce_balance_c |-> 3,
    storage_codehash_s |-> 4, storage_codehash_c |-> 5, drifted |-> 6 ]

\* The row-type column of each row the gadget reads.
AccountLeafCols ==
  [ key_s |-> "is_account_leaf_key_s", key_c |-> "is_account_leaf_key_c",
    wrong |-> "is_non_existing_account_row",
    nonce_balance_s |-> "is_account_leaf_nonce_balance_s",
    nonce_balance_c |-> "is_account_leaf_nonce_balance_c",
    storage_codehash_s |-> "is_account_leaf_storage_codehash_s",
    storage_codehash_c |-> "is_account_leaf_storage_codehash_c",
    drifted |-> "is_account_leaf_in_added_branch" ]

\* The number of rows the gadget reads: offsets -1 .. 6.
RegionRows == Cardinality(DOMAIN AccountLeafCols)

-----------------------------------------------------------------------------
(* The table scan: the gate holds on every row as the rows are assigned *)

NoLeaf == [is_s \in BOOLEAN |-> [done |-> FALSE]]

NoMemory == [is_s \in BOOLEAN |-> <<>>]

\* No account leaf is being configured or assigned.
NoAccount == [done |-> FALSE]

NoPv == [done |-> FALSE]

\* No RLC is being computed.
NoRlc == [done |-> FALSE]

IsProofStart(c) ==
  c["not_first_level"] = 0 /\ (c["is_branch_init"] = 1 \/ c["is_account_leaf_key_s"] = 1)

\* The first row of the table.
Init ==
  /\ prev \in WrapRows
  /\ cur \in NextRows(prev, 0, ScanMisc)
  /\ leaf_offset = IF cur["is_account_leaf_key_s"] = 1 THEN 0 ELSE RegionRows
  /\ proof_start = ProofTypeOf(cur)
  /\ key_memory = NoMemory
  /\ leaf = NoLeaf
  /\ parent_memory = NoMemory
  /\ account = NoAccount
  /\ pv = NoPv
  /\ rlc_run = NoRlc

\* The next row of the table.
AssignRow ==
  /\ cur' \in NextRows(cur, 1, ScanMisc)
  /\ prev' = cur
  /\ leaf_offset' = IF cur'["is_account_leaf_key_s"] = 1 THEN 0
                    ELSE IF leaf_offset < RegionRows THEN leaf_offset + 1
                    ELSE RegionRows
  /\ proof_start' = IF IsProofStart(cur') THEN ProofTypeOf(cur') ELSE proof_start
  /\ UNCHANGED leaf_vars
  /\ UNCHANGED rlc_vars

Next == AssignRow

Spec == Init /\ [][Next]_vars

-----------------------------------------------------------------------------
(* The single-row check: one row after a given previous row, every cell varied *)

InitCells ==
  /\ \/ /\ prev = ZeroRow
        /\ cur \in NextRows(prev, 0, CellMisc)
     \/ /\ prev \in PrevRows
        /\ cur \in NextRows(prev, 1, CellMisc)
  /\ leaf_offset = RegionRows
  /\ proof_start = ProofTypeOf(cur)
  /\ key_memory = NoMemory
  /\ leaf = NoLeaf
  /\ parent_memory = NoMemory
  /\ account = NoAccount
  /\ pv = NoPv
  /\ rlc_run = NoRlc

\* The miscellaneous cells of the row are assigned again.
AssignMisc ==
  /\ \E M \in CellMisc :
       /\ cur' = With(With(cur, [col \in MiscCols |-> 0]), M)
       /\ Gate(prev, cur')
  /\ UNCHANGED <<prev, leaf_offset, proof_start>>
  /\ UNCHANGED leaf_vars
  /\ UNCHANGED rlc_vars

NextCells == AssignMisc

SpecCells == InitCells /\ [][NextCells]_vars

-----------------------------------------------------------------------------
(* account_leaf.rs: the key of the account leaf *)

\* param::HASH_WIDTH, the bytes of a hash; a leaf key has at most
\* HASH_WIDTH + 1 bytes.
HASH_WIDTH == 32

\* param::KEY_LEN_IN_NIBBLES, the nibbles of a 256-bit key.
KEY_LEN_IN_NIBBLES == 64

\* KeyData, the key state an ancestor stores for the node below it.
KeyData(rlc, mult, num_nibbles, is_odd, is_placeholder_leaf_c, is_placeholder_leaf_s) ==
  [ rlc |-> rlc, mult |-> mult, num_nibbles |-> num_nibbles, is_odd |-> is_odd,
    is_placeholder_leaf_c |-> is_placeholder_leaf_c,
    is_placeholder_leaf_s |-> is_placeholder_leaf_s ]

\* Key data that keeps one nibble of the path above the leaf.
KeyDataDefaultOneNibble == KeyData(0, 1, 1, 1, 0, 0)

\* KeyData::default_values(): the values the account leaf stores.
KeyDataDefault == KeyData(0, 1, 0, 0, 0, 0)

\* KeyData::load(cb, memory, offset): the tuple stored offset stores before
\* the most recent one.
KeyDataLoad(memory, offset) == memory[Len(memory) - offset]

\* LeafKeyGadget::num_key_nibbles(is_key_odd): a key of key_len bytes holds
\* one nibble in its first byte when odd, none when even, and two in every
\* other byte.
num_key_nibbles(key_len, is_key_odd) ==
  is_key_odd * (key_len * 2 - 1) + not(is_key_odd) * ((key_len - 1) * 2)

\* Mutant: the nibbles of the ancestors are left out of the sum.
NumNibblesConstraintLeafOnly(key_data, key_len) ==
  RequireEqual(1, num_key_nibbles(key_len, key_data.is_odd), KEY_LEN_IN_NIBBLES)

\* Total number of nibbles needs to be KEY_LEN_IN_NIBBLES.
NumNibblesConstraint(key_data, key_len) ==
  RequireEqual(1, key_data.num_nibbles + num_key_nibbles(key_len, key_data.is_odd),
               KEY_LEN_IN_NIBBLES)

\* The nibble counts tried in a stored KeyData: near 0 and near the full key.
NumNibblesTried ==
  {n \in 0..KEY_LEN_IN_NIBBLES :
     n <= NibbleSpan \/ n >= KEY_LEN_IN_NIBBLES - NibbleSpan}

\* The KeyData the ancestors of the leaf may have stored.
StoredKeyData ==
  {KeyData(0, 1, n, odd, 0, 0) : n \in NumNibblesTried, odd \in 0..1}

\* The lengths tried for the key bytes of the leaf: the byte of the flag and
\* up to HASH_WIDTH bytes of nibbles.
KeyLens == 1..(HASH_WIDTH + 1)

\* The scalar field F of the circuit in the RLC computations, here the
\* integers modulo a prime above every byte and small enough for every
\* challenge to be tried.
FieldModulus == 257

FAdd(x, y) == (x + y) % FieldModulus

FMul(x, y) == (x * y) % FieldModulus

\* r^n, the product of n factors r that the loops "for _ in 0..n { mult *=
\* r }" compute, the factors being multiplied half by half.
RECURSIVE FPow(_, _)
FPow(r, n) ==
  IF n = 0 THEN 1
  ELSE IF n = 1 THEN r % FieldModulus
  ELSE FMul(FPow(r, n \div 2), FPow(r, n - (n \div 2)))

\* param::RLP_LONG and param::RLP_LIST_LONG, the tags of a long string and
\* of a long list.
RLP_LONG == 183

RLP_LIST_LONG == 247

\* The bytes the gadget reads of a key row: ctx.expr(meta, -1)[..36].
KEY_ROW_BYTES == 36

\* The values a byte cell holds.
Bytes == 0..255

\* The lengths tried in the cells of the storage root and of the code hash.
HashLens == 0..(HASH_WIDTH + 1)

\* The lengths tried for the whole leaf.
LeafLens == 0..(KEY_ROW_BYTES + 255 + 2)

\* ParentData, the state a node stores about itself for the node below it.
ParentData(rlc, is_placeholder, is_placeholder_leaf, hash_rlc) ==
  [ rlc |-> rlc, is_placeholder |-> is_placeholder,
    is_placeholder_leaf |-> is_placeholder_leaf, hash_rlc |-> hash_rlc ]

\* ParentData::load(description, cb, memory, offset): the tuple stored offset
\* stores before the most recent one.
ParentDataLoad(memory, offset) == memory[Len(memory) - offset]

\* The RLC of the hash of the empty trie.
EmptyTrieRlc == 0

\* IsEmptyTreeGadget: 1 when the parent's hash is the hash of the empty trie.
IsEmptyTree(parent_rlc) == IF parent_rlc = EmptyTrieRlc THEN 1 ELSE 0

\* The hash RLC of the bytes with RLC input_rlc: never that of the empty trie.
Keccak(input_rlc) == input_rlc + 1

\* The keccak table: (is_enabled, input_rlc, input_len, output_rlc).
KeccakTable == {<<1, l, n, Keccak(l)>> : l \in 0..RlcMax, n \in LeafLens}

\* The rows of the lookups, relative to the key C row, in configure and
\* relative to base_offset in assign.
configure_lookup_offsets == [nonce |-> 2, balance |-> 3, storage |-> 4, codehash |-> 5]

assign_lookup_offsets == [key_s |-> -1, nonce |-> 2, balance |-> 3, storage |-> 4, codehash |-> 5]

LookupOffsets == {configure_lookup_offsets[x] : x \in DOMAIN configure_lookup_offsets}

\* table::ProofType, the proof_type ids.
ProofType ==
  [ NonceChanged |-> 1, BalanceChanged |-> 2, CodeHashExists |-> 3,
    AccountDoesNotExist |-> 4, AccountDestructed |-> 5,
    StorageChanged |-> 6, StorageDoesNotExist |-> 7 ]

-----------------------------------------------------------------------------
(* account_leaf.rs: the constraints of one side, "for is_s in [true, false]" *)

\* Only the storage root is a 32-byte hash.
HashLengthsStorageOnly(s) ==
  RequireEqual(1, s.storage_len, HASH_WIDTH)

\* Storage root and codehash are always 32-byte hashes.
HashLengths(s) ==
  /\ RequireEqual(1, s.storage_len, HASH_WIDTH)
  /\ RequireEqual(1, s.codehash_len, HASH_WIDTH)

\* key_rlc[is_s]: the key RLC of the ancestors plus what the leaf's key
\* bytes add (rlp_key.leaf_key_rlc).
KeyRlc(s) == s.key_data.rlc + s.key_part

\* The lookup only under a parent that is neither the empty trie nor a
\* placeholder.
KeccakConditionNeither(s) ==
  and(<<not(s.parent_data.is_placeholder), not(IsEmptyTree(s.parent_data.rlc))>>)

\* The lookup whenever the parent is not the empty trie, placeholder or not.
KeccakConditionEmptyTrieSkips(s) ==
  not(IsEmptyTree(s.parent_data.rlc))

\* The condition of the keccak lookup.
KeccakCondition(s) ==
  not(and(<<not(s.parent_data.is_placeholder), IsEmptyTree(s.parent_data.rlc)>>))

\* Check if the account is in its parent.
KeccakLookup(s) ==
  KeccakCondition(s) # 0 =>
    <<1, s.leaf_rlc, s.num_bytes, s.parent_data.rlc>> \in KeccakTable

\* The tag of a string whose length takes two bytes.
RlpStringTagTwoLengthBytes(s) == RequireEqual(1, s.value_rlp_bytes[1], RLP_LONG + 2)

\* value_rlp_bytes[0] => RLP_LONG + 1 (sequences start at 1 here).
RlpStringTag(s) == RequireEqual(1, s.value_rlp_bytes[1], RLP_LONG + 1)

\* value_rlp_bytes[1] => value_rlp_bytes[3] + 2.
RlpStringLen(s) == RequireEqual(1, s.value_rlp_bytes[2], s.value_rlp_bytes[4] + 2)

\* value_rlp_bytes[2] => RLP_LIST_LONG + 1.
RlpListTag(s) == RequireEqual(1, s.value_rlp_bytes[3], RLP_LIST_LONG + 1)

\* The length of the list without the length bytes of the two hashes.
RlpListLenNoHashPrefix(s) ==
  RequireEqual(1, s.value_rlp_bytes[4],
               s.nonce_num_bytes + s.balance_num_bytes + 2 * 32)

\* The length of the list is #(nonce bytes) + #(balance bytes) + 2 * (1 + #(hash)).
RlpListLen(s) ==
  RequireEqual(1, s.value_rlp_bytes[4],
               s.nonce_num_bytes + s.balance_num_bytes + 2 * (1 + 32))

\* Account length needs to equal all key bytes and all values list bytes.
RlpLeafLen(s) ==
  LET value_list_num_bytes == s.value_rlp_bytes[2] + 2
  IN RequireEqual(1, s.num_bytes, s.num_bytes_on_key_row + value_list_num_bytes)

\* Check the RLP encoding consistency.
RlpConsistency(s) ==
  /\ RlpStringTag(s)
  /\ RlpStringLen(s)
  /\ RlpListTag(s)
  /\ RlpListLen(s)
  /\ RlpLeafLen(s)

\* Every constraint of one pass of the loop on the cells s of the side.
SideConstraints(s) ==
  /\ HashLengths(s)
  /\ NumNibblesConstraint(s.key_data, s.key_len)
  /\ KeccakLookup(s)
  /\ RlpConsistency(s)

\* The ParentData the side stores: ParentData::store(.., [storage_rlc,
\* true.expr(), false.expr(), storage_rlc]).
configure_parent_store(storage_rlc) == ParentData(storage_rlc, 1, 0, storage_rlc)

\* The ParentData stored with the two flags exchanged.
assign_parent_store_flags_swapped(storage_value_rlc) ==
  ParentData(storage_value_rlc, 0, 1, storage_value_rlc)

\* The ParentData assign stores: witness_store(.., storage_value_rlc, true,
\* false, storage_value_rlc).
assign_parent_store(storage_value_rlc) ==
  ParentData(storage_value_rlc, 1, 0, storage_value_rlc)

-----------------------------------------------------------------------------
(* account_leaf.rs: the constraints after the loop *)

\* a!(column, offset): the cell of a proof-type column on the row at offset
\* from the key C row; a!(column) is a!(column, 0).
FlagAt(f, column, offset) == f[offset][column]

\* AccountDelete reading the KeyData and ParentData of the S side.
AccountDeleteOnS(f, L) ==
  RequireEqual(FlagAt(f, "is_account_delete_mod", 0),
               or(<<L[TRUE].key_data.is_placeholder_leaf_c,
                    L[TRUE].parent_data.is_placeholder>>),
               1)

\* Account delete: a placeholder leaf or a placeholder branch on the C side.
AccountDelete(f, L) ==
  RequireEqual(FlagAt(f, "is_account_delete_mod", 0),
               or(<<L[FALSE].key_data.is_placeholder_leaf_c,
                    L[FALSE].parent_data.is_placeholder>>), 1)

\* Mutant: the nonce may change whatever the proof type is.
OnlyOneModificationNonceFree(f, L) ==
  LET not_delete == not(FlagAt(f, "is_account_delete_mod", 0))
      o == configure_lookup_offsets
  IN /\ RequireEqual(and(<<not_delete, not(FlagAt(f, "is_balance_mod", o.balance))>>),
                     L[FALSE].balance_rlc, L[TRUE].balance_rlc)
     /\ RequireEqual(and(<<not_delete, not(FlagAt(f, "is_storage_mod", o.storage))>>),
                     L[FALSE].storage_rlc, L[TRUE].storage_rlc)
     /\ RequireEqual(and(<<not_delete, not(FlagAt(f, "is_codehash_mod", o.codehash))>>),
                     L[FALSE].codehash_rlc, L[TRUE].codehash_rlc)

\* Mutant: the fields are compared in an account delete proof too.
OnlyOneModificationOnDelete(f, L) ==
  LET o == configure_lookup_offsets
  IN /\ RequireEqual(not(FlagAt(f, "is_nonce_mod", o.nonce)),
                     L[FALSE].nonce_rlc, L[TRUE].nonce_rlc)
     /\ RequireEqual(not(FlagAt(f, "is_balance_mod", o.balance)),
                     L[FALSE].balance_rlc, L[TRUE].balance_rlc)
     /\ RequireEqual(not(FlagAt(f, "is_storage_mod", o.storage)),
                     L[FALSE].storage_rlc, L[TRUE].storage_rlc)
     /\ RequireEqual(not(FlagAt(f, "is_codehash_mod", o.codehash)),
                     L[FALSE].codehash_rlc, L[TRUE].codehash_rlc)

\* Check that there is only one modification (except when the account is
\* being deleted).
OnlyOneModification(f, L) ==
  LET not_delete == not(FlagAt(f, "is_account_delete_mod", 0))
      o == configure_lookup_offsets
  IN /\ RequireEqual(and(<<not_delete, not(FlagAt(f, "is_nonce_mod", o.nonce))>>),
                     L[FALSE].nonce_rlc, L[TRUE].nonce_rlc)
     /\ RequireEqual(and(<<not_delete, not(FlagAt(f, "is_balance_mod", o.balance))>>),
                     L[FALSE].balance_rlc, L[TRUE].balance_rlc)
     /\ RequireEqual(and(<<not_delete, not(FlagAt(f, "is_storage_mod", o.storage))>>),
                     L[FALSE].storage_rlc, L[TRUE].storage_rlc)
     /\ RequireEqual(and(<<not_delete, not(FlagAt(f, "is_codehash_mod", o.codehash))>>),
                     L[FALSE].codehash_rlc, L[TRUE].codehash_rlc)

\* The key RLC compared with address_rlc also under a placeholder parent.
AddressRlcUnderPlaceholder(f, L, t) ==
  \A is_s \in BOOLEAN :
    RequireEqual(not(FlagAt(f, "is_non_existing_account_proof", 0)),
                 t.address_rlc, KeyRlc(L[is_s]))

\* The computed key RLC needs to be the same as the value in the address_rlc
\* column.
AddressRlc(f, L, t) ==
  \A is_s \in BOOLEAN :
    RequireEqual(and(<<not(L[is_s].parent_data.is_placeholder),
                       not(FlagAt(f, "is_non_existing_account_proof", 0))>>),
                 t.address_rlc, KeyRlc(L[is_s]))

\* Lookup data: value_prev holds the S side.
LookupValuePrev(L, t) ==
  /\ RequireEqual(1, t.value_prev[configure_lookup_offsets.nonce], L[TRUE].nonce_rlc)
  /\ RequireEqual(1, t.value_prev[configure_lookup_offsets.balance], L[TRUE].balance_rlc)
  /\ RequireEqual(1, t.value_prev[configure_lookup_offsets.storage], L[TRUE].storage_rlc)
  /\ RequireEqual(1, t.value_prev[configure_lookup_offsets.codehash], L[TRUE].codehash_rlc)

\* Lookup data: value holds the S side too.
LookupValueOfS(L, t) ==
  /\ RequireEqual(1, t.value[configure_lookup_offsets.nonce], L[TRUE].nonce_rlc)
  /\ RequireEqual(1, t.value[configure_lookup_offsets.balance], L[TRUE].balance_rlc)
  /\ RequireEqual(1, t.value[configure_lookup_offsets.storage], L[TRUE].storage_rlc)
  /\ RequireEqual(1, t.value[configure_lookup_offsets.codehash], L[TRUE].codehash_rlc)

\* Lookup data: value holds the C side, the balance on the nonce row and the
\* nonce on the balance row.
LookupValueNonceBalanceSwapped(L, t) ==
  /\ RequireEqual(1, t.value[configure_lookup_offsets.nonce], L[FALSE].balance_rlc)
  /\ RequireEqual(1, t.value[configure_lookup_offsets.balance], L[FALSE].nonce_rlc)
  /\ RequireEqual(1, t.value[configure_lookup_offsets.storage], L[FALSE].storage_rlc)
  /\ RequireEqual(1, t.value[configure_lookup_offsets.codehash], L[FALSE].codehash_rlc)

\* Lookup data: value holds the C side.
LookupValue(L, t) ==
  /\ RequireEqual(1, t.value[configure_lookup_offsets.nonce], L[FALSE].nonce_rlc)
  /\ RequireEqual(1, t.value[configure_lookup_offsets.balance], L[FALSE].balance_rlc)
  /\ RequireEqual(1, t.value[configure_lookup_offsets.storage], L[FALSE].storage_rlc)
  /\ RequireEqual(1, t.value[configure_lookup_offsets.codehash], L[FALSE].codehash_rlc)

\* Every constraint after the loop, on the flags f, the cells L of the two
\* sides and the cells t of the mpt_table.
AccountConstraints(f, L, t) ==
  /\ AccountDelete(f, L)
  /\ OnlyOneModification(f, L)
  /\ AddressRlc(f, L, t)
  /\ LookupValuePrev(L, t)
  /\ LookupValue(L, t)

-----------------------------------------------------------------------------
(* The cells tried *)

\* What is varied in a leaf; every other cell holds the value of a plain leaf.
Varied == {"key", "parent", "address", "fields", "rlp", "missing"}

\* The offsets of the rows of the leaf from its key C row.
RegionOffsets == {configure_offsets[x] : x \in DOMAIN configure_offsets}

\* The proof-type flags of the rows of the leaf: one proof type on a row,
\* and the same flags on every row of the leaf, as the Selectors gate
\* requires.
LeafFlags ==
  {[o \in RegionOffsets |-> ProofTypeOf(r)] :
     r \in {x \in {With(With(ZeroRow, FixedCells(1)), P) : P \in ProofTypeCells} :
              BooleanChecks(x) /\ ProofTypeSum(x)}}

\* The parent of a plain leaf: the leaf (RLC 0) hashes into it.
PlainParent == ParentData(Keccak(0), 0, 0, Keccak(0))

\* The KeyData one branch above the leaf stores: one nibble used.
BranchKeyData(rlc, is_placeholder_leaf_c) == KeyData(rlc, 1, 1, 1, is_placeholder_leaf_c, 0)

\* What the ancestors of the leaf left in the key channel and in the parent
\* channel of a side: the values at the start of the proof, and on top of
\* them what a branch above the leaf stored.
Ancestors(vary, is_s) ==
  LET PlaceholderLeafC == IF is_s THEN {0} ELSE 0..1
      top == << <<KeyDataDefault>>, <<PlainParent>> >>
      Under(kd, pd) == << <<KeyDataDefault, kd>>, <<PlainParent, pd>> >>
  IN CASE vary = "key" ->
            {top} \cup {Under(kd, PlainParent) : kd \in StoredKeyData}
       [] vary = "parent" ->
            {Under(BranchKeyData(0, c), ParentData(h, p, 0, h)) :
               c \in PlaceholderLeafC, h \in 0..(RlcMax + 1), p \in 0..1}
       [] vary = "address" ->
            {Under(BranchKeyData(k, 0), ParentData(Keccak(0), p, 0, Keccak(0))) :
               k \in 0..RlcMax, p \in 0..1}
       [] vary = "fields" ->
            {Under(BranchKeyData(0, c), PlainParent) : c \in PlaceholderLeafC}
       [] OTHER -> {top}

\* The cells of a side before any is chosen.
PlainSide(key_data, parent_data) ==
  [ done |-> TRUE, key_data |-> key_data, parent_data |-> parent_data,
    key_len |-> 0, key_part |-> 0, leaf_rlc |-> 0,
    num_bytes_on_key_row |-> KEY_ROW_BYTES, num_bytes |-> 0,
    nonce_num_bytes |-> 1, nonce_rlc |-> 0,
    balance_num_bytes |-> 1, balance_rlc |-> 0,
    storage_len |-> 0, storage_rlc |-> 0,
    codehash_len |-> 0, codehash_rlc |-> 0,
    value_rlp_bytes |-> <<0, 0, 0, 0>> ]

\* The cells of a side that satisfy the constraints of the loop, given the
\* key data and the parent data loaded.
SideCells(vary, key_data, parent_data) ==
  LET Rlcs(group) == IF vary = group THEN 0..RlcMax ELSE {0}
      Lens == IF vary = "rlp" THEN 1..LenMax ELSE {1}
      KeyRows == IF vary = "rlp" THEN (KEY_ROW_BYTES - 1)..KEY_ROW_BYTES
                 ELSE {KEY_ROW_BYTES}
      s0 == PlainSide(key_data, parent_data)
      S1 == {s \in {[s0 EXCEPT !.key_len = kl] : kl \in KeyLens} :
               NumNibblesConstraint(s.key_data, s.key_len)}
      S2 == {s \in {[x EXCEPT !.storage_len = a, !.codehash_len = b] :
                      x \in S1, a \in HashLens, b \in HashLens} : HashLengths(s)}
      S3 == {[x EXCEPT !.nonce_num_bytes = n, !.balance_num_bytes = b,
                       !.num_bytes_on_key_row = k] :
               x \in S2, n \in Lens, b \in Lens, k \in KeyRows}
      S4 == {s \in {[x EXCEPT !.value_rlp_bytes[4] = b] : x \in S3, b \in Bytes} :
               RlpListLen(s)}
      S5 == {s \in {[x EXCEPT !.value_rlp_bytes[2] = b] : x \in S4, b \in Bytes} :
               RlpStringLen(s)}
      S6 == {s \in {[x EXCEPT !.value_rlp_bytes[1] = b] : x \in S5, b \in Bytes} :
               RlpStringTag(s)}
      S7 == {s \in {[x EXCEPT !.value_rlp_bytes[3] = b] : x \in S6, b \in Bytes} :
               RlpListTag(s)}
      S8 == {s \in {[x EXCEPT !.num_bytes = n] : x \in S7, n \in LeafLens} :
               RlpLeafLen(s)}
      S9 == {s \in {[x EXCEPT !.leaf_rlc = l, !.key_part = k] :
                      x \in S8, l \in Rlcs("parent"), k \in Rlcs("address")} :
               KeccakLookup(s)}
  IN {s \in {[x EXCEPT !.nonce_rlc = n, !.balance_rlc = b,
                       !.storage_rlc = st, !.codehash_rlc = c] :
               x \in S9, n \in Rlcs("fields"), b \in Rlcs("fields"),
               st \in Rlcs("fields"), c \in Rlcs("fields")} :
        SideConstraints(s)}

\* The cells of the mpt_table that satisfy the constraints after the loop.
TableCells(f, L) ==
  LET Values == [LookupOffsets -> 0..RlcMax]
      t0 == [address_rlc |-> 0, value_prev |-> [o \in LookupOffsets |-> 0],
             value |-> [o \in LookupOffsets |-> 0]]
      T1 == {t \in {[t0 EXCEPT !.value_prev = v] : v \in Values} : LookupValuePrev(L, t)}
      T2 == {t \in {[x EXCEPT !.value = v] : x \in T1, v \in Values} : LookupValue(L, t)}
  IN {t \in {[x EXCEPT !.address_rlc = a] : x \in T2, a \in 0..(2 * RlcMax)} :
        AccountConstraints(f, L, t)}

-----------------------------------------------------------------------------
(* account_leaf.rs: configure and assign on one account leaf *)

\* The challenges r tried: two where the lengths of the fields vary.
Challenges(vary) == IF vary = "rlp" THEN 2..3 ELSE {2}

\* The channels of pv.memory that no ancestor has stored to: none, unless
\* the missing stores are what is varied.
MissingStores(vary) ==
  IF vary = "missing"
  THEN [key : SUBSET BOOLEAN, parent : SUBSET BOOLEAN]
  ELSE {[key |-> {}, parent |-> {}]}

\* The channels of the two sides, those of the sides in missing being empty.
Without(memory, missing) ==
  [is_s \in BOOLEAN |-> IF is_s \in missing THEN <<>> ELSE memory[is_s]]

\* Before the account leaf: the channels of each side hold what the
\* ancestors stored, in the circuit and, unless stores are missing, in the
\* witness assignment.
InitLeaf ==
  /\ \E vary \in Varied, f \in LeafFlags :
       /\ \E r \in Challenges(vary) :
            account = [done |-> FALSE, vary |-> vary, flags |-> f, r |-> r]
       /\ \E S \in Ancestors(vary, TRUE), C \in Ancestors(vary, FALSE) :
            /\ key_memory = [is_s \in BOOLEAN |-> IF is_s THEN S[1] ELSE C[1]]
            /\ parent_memory = [is_s \in BOOLEAN |-> IF is_s THEN S[2] ELSE C[2]]
  /\ \E missing \in MissingStores(account.vary) :
       pv = [done |-> FALSE, rows |-> "unread", error |-> "none", side |-> NoLeaf,
             stores |-> {},
             key_memory |-> Without(key_memory, missing.key),
             parent_memory |-> Without(parent_memory, missing.parent)]
  /\ leaf = NoLeaf
  /\ rlc_run = NoRlc
  /\ prev = ZeroRow
  /\ cur = ZeroRow
  /\ leaf_offset = RegionRows
  /\ proof_start = ProofTypeOf(ZeroRow)

\* The key data a side loads: the oldest store of its channel.
LoadedKeyDataOldest(is_s) == key_memory[is_s][1]

\* The key data and the parent data a side loads: the top of its channels.
LoadedKeyData(is_s) == KeyDataLoad(key_memory[is_s], 0)

\* The parent data a side loads: the top of the channel of the S side.
LoadedParentDataOfS(is_s) == ParentDataLoad(parent_memory[TRUE], 0)

LoadedParentData(is_s) == ParentDataLoad(parent_memory[is_s], 0)

\* One pass of "for is_s in [true, false]" of AccountLeafConfig::configure,
\* with cells that satisfy its constraints: the key data and the parent data
\* are loaded, the cells are constrained, the default key data and the
\* parent data of the storage trie are stored.
ConfigureSide(is_s) ==
  /\ ~account.done
  /\ ~leaf[is_s].done
  /\ is_s \/ leaf[TRUE].done
  /\ \E s \in SideCells(account.vary, LoadedKeyData(is_s), LoadedParentData(is_s)) :
       /\ leaf' = [leaf EXCEPT ![is_s] = s]
       /\ parent_memory' = [parent_memory EXCEPT
                              ![is_s] = Append(@, configure_parent_store(s.storage_rlc))]
  /\ key_memory' = [key_memory EXCEPT ![is_s] = Append(@, KeyDataDefault)]
  /\ UNCHANGED <<account, pv>>
  /\ UNCHANGED selector_vars
  /\ UNCHANGED rlc_vars

\* AccountLeafConfig::configure after the loop, with cells that satisfy its
\* constraints.
ConfigureAccount ==
  /\ leaf[TRUE].done /\ leaf[FALSE].done
  /\ ~account.done
  /\ \E t \in TableCells(account.flags, leaf) :
       account' = [account EXCEPT !.done = TRUE] @@ [mpt_table |-> t]
  /\ UNCHANGED <<key_memory, leaf, parent_memory, pv>>
  /\ UNCHANGED selector_vars
  /\ UNCHANGED rlc_vars

\* The rows read without the key S row.
assign_row_reads_from_key_c == << 0, 2, 3, 4, 5, 6, 1 >>

\* The rows of the witness that assign reads, relative to base_offset, in
\* the order it reads them: key S, key C, nonce balance S and C, storage
\* codehash S and C, drifted, wrong.
assign_row_reads == << -1, 0, 2, 3, 4, 5, 6, 1 >>

\* witness[base_offset + d] of a witness of witness_len rows: base_offset is
\* a usize, so base_offset - 1 at base_offset 0 either overflows (checked
\* build) or wraps to the largest usize (unchecked build), which is no row
\* of the witness; a negative index here stands for both.
RowExists(witness_len, base_offset, d) ==
  0 <= base_offset + d /\ base_offset + d < witness_len

\* The lengths of the witness and the offsets of the leaf tried.
WitnessLens == RegionRows..(RegionRows + 1)

\* The start of AccountLeafConfig::assign: the eight rows are read, and
\* assign aborts when one of them is not in the witness.
AssignRows ==
  /\ account.done
  /\ pv.rows = "unread" /\ pv.error = "none"
  /\ \E witness_len \in WitnessLens, base_offset \in 0..OffsetMax :
       LET called == pv @@ [witness_len |-> witness_len, base_offset |-> base_offset]
       IN IF \A i \in DOMAIN assign_row_reads :
               RowExists(witness_len, base_offset, assign_row_reads[i])
          THEN pv' = [called EXCEPT !.rows = "read"]
          ELSE pv' = [called EXCEPT !.error = "rows"]
  /\ UNCHANGED <<key_memory, leaf, parent_memory, account>>
  /\ UNCHANGED selector_vars
  /\ UNCHANGED rlc_vars

\* let mut mult = F::one(); for _ in 0..n { mult *= ctx.r; }: the value of
\* mult after the n rounds that are left.
RECURSIVE MultLoop(_, _, _)
MultLoop(mult, r, n) ==
  IF n = 0 THEN mult ELSE MultLoop(FMul(mult, r), r, n - 1)

\* The multipliers with the loop of the nonce run over the bytes of the
\* nonce only.
assign_mults_nonce_bytes_only(r, s) ==
  [ nonce_mult |-> MultLoop(1, r, s.nonce_num_bytes),
    balance_mult |-> MultLoop(1, r, s.balance_num_bytes),
    key_mult |-> MultLoop(1, r, s.num_bytes_on_key_row) ]

\* The multipliers assign writes for a side: mult_nonce = r^(nonce bytes +
\* 4), mult_balance = r^(balance bytes), key_mult = r^(bytes on the key row),
\* each by its loop.
assign_mults(r, s) ==
  [ nonce_mult |-> MultLoop(1, r, s.nonce_num_bytes + 4),
    balance_mult |-> MultLoop(1, r, s.balance_num_bytes),
    key_mult |-> MultLoop(1, r, s.num_bytes_on_key_row) ]

\* A failed load with the multipliers of the side already assigned.
LoadAbortWithMults(p, is_s, loaded) ==
  [p EXCEPT !.error = "load",
            !.side[is_s] = [done |-> FALSE,
                            mult |-> assign_mults(account.r, leaf[is_s])] @@ loaded]

\* witness_load(..)? on a channel without a store: assign returns with the
\* cells loaded so far on the side and nothing more.
LoadAbort(p, is_s, loaded) ==
  [p EXCEPT !.error = "load", !.side[is_s] = [done |-> FALSE] @@ loaded]

\* One pass of "for is_s in [true, false]" of AccountLeafConfig::assign on
\* the witness of the leaf: witness_load of the key data and of the parent
\* data, the multipliers, then witness_store of both (pv.stores holds the
\* sides whose stores were performed).  A load from a channel without a
\* store aborts assign, with what was assigned so far.
AssignSide(is_s) ==
  /\ account.done
  /\ pv.rows = "read" /\ pv.error = "none"
  /\ ~pv.done
  /\ ~pv.side[is_s].done
  /\ is_s \/ pv.side[TRUE].done
  /\ IF pv.key_memory[is_s] = <<>>
     THEN pv' = LoadAbort(pv, is_s, <<>>)
     ELSE LET key_data == KeyDataLoad(pv.key_memory[is_s], 0)
          IN IF pv.parent_memory[is_s] = <<>>
             THEN pv' = LoadAbort(pv, is_s, [key_data |-> key_data])
             ELSE LET parent_data == ParentDataLoad(pv.parent_memory[is_s], 0)
                      storage_value_rlc == leaf[is_s].storage_rlc
                  IN pv' = [pv EXCEPT
                              !.side[is_s] = [done |-> TRUE, key_data |-> key_data,
                                              parent_data |-> parent_data,
                                              mult |-> assign_mults(account.r, leaf[is_s])],
                              !.stores = @ \cup {is_s},
                              !.key_memory[is_s] = Append(@, KeyDataDefault),
                              !.parent_memory[is_s] =
                                Append(@, assign_parent_store(storage_value_rlc))]
  /\ UNCHANGED <<key_memory, leaf, parent_memory, account>>
  /\ UNCHANGED selector_vars
  /\ UNCHANGED rlc_vars

\* AccountLeafConfig::assign after the loop: the lookup data.
AssignLookup ==
  /\ pv.side[TRUE].done /\ pv.side[FALSE].done
  /\ ~pv.done
  /\ LET f == account.flags
         o == assign_lookup_offsets
         Id(flag, offset, id, ids) == IF flag = 1 THEN [ids EXCEPT ![offset] = id] ELSE ids
         ids0 == [x \in {o[k] : k \in DOMAIN o} |-> 0]
         ids1 == Id(f[assign_offsets.key_s].is_account_delete_mod,
                    o.key_s, ProofType.AccountDoesNotExist, ids0)
         ids2 == Id(f[assign_offsets.nonce_balance_s].is_nonce_mod,
                    o.nonce, ProofType.NonceChanged, ids1)
         ids3 == Id(f[assign_offsets.nonce_balance_c].is_balance_mod,
                    o.balance, ProofType.BalanceChanged, ids2)
         ids4 == Id(f[assign_offsets.storage_codehash_c].is_codehash_mod,
                    o.codehash, ProofType.CodeHashExists, ids3)
     IN pv' = [pv EXCEPT !.done = TRUE] @@
              [proof_type |-> ids4,
               value_prev |-> (o.nonce :> leaf[TRUE].nonce_rlc) @@
                              (o.balance :> leaf[TRUE].balance_rlc) @@
                              (o.storage :> leaf[TRUE].storage_rlc) @@
                              (o.codehash :> leaf[TRUE].codehash_rlc),
               value |-> (o.nonce :> leaf[FALSE].nonce_rlc) @@
                         (o.balance :> leaf[FALSE].balance_rlc) @@
                         (o.storage :> leaf[FALSE].storage_rlc) @@
                         (o.codehash :> leaf[FALSE].codehash_rlc)]
  /\ UNCHANGED <<key_memory, leaf, parent_memory, account>>
  /\ UNCHANGED selector_vars
  /\ UNCHANGED rlc_vars

NextLeaf ==
  \/ \E is_s \in BOOLEAN : ConfigureSide(is_s)
  \/ ConfigureAccount
  \/ AssignRows
  \/ \E is_s \in BOOLEAN : AssignSide(is_s)
  \/ AssignLookup

SpecLeaf == InitLeaf /\ [][NextLeaf]_vars

-----------------------------------------------------------------------------
(* account_leaf.rs: the RLC of the leaf *)

\* A vector r that holds the challenge itself at every index.
RVectorFlat(challenge, i) == FPow(challenge, 1)

\* r[i] of the vector r of the powers of the challenge: challenge^(i + 1).
RVector(challenge, i) == FPow(challenge, i + 1)

\* values.rlc(&r): values[0] + values[1] * r[0] + values[2] * r[1] + ...,
\* here the terms of the indices lo..hi (values is 1-based here), added half
\* by half.
RECURSIVE rlc_terms(_, _, _, _)
rlc_terms(values, challenge, lo, hi) ==
  IF lo > hi THEN 0
  ELSE IF lo = hi
       THEN FMul(values[lo], IF lo = 1 THEN 1 ELSE RVector(challenge, lo - 2))
  ELSE FAdd(rlc_terms(values, challenge, lo, (lo + hi) \div 2),
            rlc_terms(values, challenge, ((lo + hi) \div 2) + 1, hi))

rlc_expr(values, challenge) == rlc_terms(values, challenge, 1, Len(values))

\* (rlc, mult).rlc_chain(other): rlc + mult * other.
rlc_chain(rlc_mult, other) == FAdd(rlc_mult[1], FMul(rlc_mult[2], other))

\* The fixed table under FixedTableTag::RMult: (n, challenge^n).
RMultTable(challenge) ==
  {<<n, FPow(challenge, n)>> : n \in 0..(KEY_ROW_BYTES + 4)}

\* The lookups of the three multipliers of the cells c of a side.
MultLookups(c, challenge) ==
  /\ <<c.num_bytes_on_key_row, c.key_mult>> \in RMultTable(challenge)
  /\ <<c.nonce_num_bytes + 4, c.nonce_mult>> \in RMultTable(challenge)
  /\ <<c.balance_num_bytes, c.balance_mult>> \in RMultTable(challenge)

\* The multipliers of the cells c that satisfy their lookups, each looked
\* for among the elements of the field.
MultCells(c, challenge) ==
  LET table == RMultTable(challenge)
      Cells(n) == {m \in 0..(FieldModulus - 1) : <<n, m>> \in table}
  IN [key_mult : Cells(c.num_bytes_on_key_row),
      nonce_mult : Cells(c.nonce_num_bytes + 4),
      balance_mult : Cells(c.balance_num_bytes)]

\* The leaf RLC without the key, chained with r[31] between the storage root
\* and the code hash.
leaf_no_key_rlc_r31(c, challenge) ==
  rlc_chain(<<0, 1>>,
    rlc_chain(<<rlc_expr(c.value_rlp_bytes \o <<rlc_expr(c.nonce_bytes, challenge)>>,
                         challenge),
                c.nonce_mult>>,
      rlc_chain(<<rlc_expr(c.balance_bytes, challenge), c.balance_mult>>,
        rlc_chain(<<rlc_expr(c.storage_bytes, challenge), RVector(challenge, 31)>>,
                  rlc_expr(c.codehash_bytes, challenge)))))

\* Calculate the leaf RLC: leaf_no_key_rlc[is_s].
leaf_no_key_rlc(c, challenge) ==
  rlc_chain(<<0, 1>>,
    rlc_chain(<<rlc_expr(c.value_rlp_bytes \o <<rlc_expr(c.nonce_bytes, challenge)>>,
                         challenge),
                c.nonce_mult>>,
      rlc_chain(<<rlc_expr(c.balance_bytes, challenge), c.balance_mult>>,
        rlc_chain(<<rlc_expr(c.storage_bytes, challenge), RVector(challenge, 32)>>,
                  rlc_expr(c.codehash_bytes, challenge)))))

\* leaf_rlc: the RLC of the key row chained with leaf_no_key_rlc.
leaf_rlc(c, challenge) ==
  rlc_chain(<<rlc_expr(c.key_bytes, challenge), c.key_mult>>,
            leaf_no_key_rlc(c, challenge))

\* width cells that hold n bytes, which depend on seed, and zeros after them.
Pattern(seed, n, width) ==
  [i \in 1..width |-> IF i <= n THEN (97 * seed + 7 * i + 1) % 256 ELSE 0]

\* The cells of a side the RLC of the leaf is computed on, the multipliers
\* left out: the 36 cells of the key row, the four header bytes, the 32
\* cells of the nonce and of the balance, the 33 of each hash.
LeafBytes ==
  {[ key_bytes |-> Pattern(seed, k, KEY_ROW_BYTES), num_bytes_on_key_row |-> k,
     value_rlp_bytes |-> Pattern(seed + 1, 4, 4),
     nonce_bytes |-> Pattern(seed + 2, n, HASH_WIDTH), nonce_num_bytes |-> n,
     balance_bytes |-> Pattern(seed + 3, b, HASH_WIDTH), balance_num_bytes |-> b,
     storage_bytes |-> Pattern(seed + 4, HASH_WIDTH + 1, HASH_WIDTH + 1),
     codehash_bytes |-> Pattern(seed + 5, HASH_WIDTH + 1, HASH_WIDTH + 1) ] :
     seed \in 0..SeedMax, k \in (KEY_ROW_BYTES - 1)..KEY_ROW_BYTES,
     n \in 1..LenMax, b \in 1..LenMax}

\* The bytes of the sequences whose RLCs are compared.
PairBytes == {0, 1, 255}

\* The pairs of byte sequences of one length.
Pairs ==
  UNION {[1..2 -> [1..n -> PairBytes]] : n \in 1..SeqLenMax}

\* The challenges the RLC of the leaf is computed with.
LeafChallenges == 2..4

\* The lengths the multipliers of a side are computed for: the bytes on the
\* key row up to the cells of the row, the bytes of the nonce and of the
\* balance up to a prefix byte and 32 bytes, one length varied at a time.
MultLens ==
  LET Lens(k, n, b) ==
        [num_bytes_on_key_row |-> k, nonce_num_bytes |-> n, balance_num_bytes |-> b]
  IN {Lens(k, 1, 1) : k \in 0..KEY_ROW_BYTES}
       \cup {Lens(KEY_ROW_BYTES, n, 1) : n \in 0..(HASH_WIDTH + 1)}
       \cup {Lens(KEY_ROW_BYTES, 1, b) : b \in 0..(HASH_WIDTH + 1)}

\* The challenges the multipliers are computed with: 0, 1, small ones and
\* the largest element of the field.
MultChallenges == {0, 1, FieldModulus - 1} \cup LeafChallenges

\* The encoded lengths of the nonce and of the balance the header of the
\* value is constrained for: 1 to 33 bytes each.
HeaderLens ==
  [nonce_num_bytes : 1..(HASH_WIDTH + 1), balance_num_bytes : 1..(HASH_WIDTH + 1)]

\* The header cells value_rlp_bytes, each a byte, that satisfy the
\* constraints on the header for the lengths c, found cell by cell.
HeaderCells(c) ==
  LET s0 == c @@ [value_rlp_bytes |-> <<0, 0, 0, 0>>]
      H1 == {s \in {[s0 EXCEPT !.value_rlp_bytes[4] = b] : b \in Bytes} : RlpListLen(s)}
      H2 == {s \in {[x EXCEPT !.value_rlp_bytes[2] = b] : x \in H1, b \in Bytes} :
               RlpStringLen(s)}
      H3 == {s \in {[x EXCEPT !.value_rlp_bytes[1] = b] : x \in H2, b \in Bytes} :
               RlpStringTag(s)}
      H4 == {s \in {[x EXCEPT !.value_rlp_bytes[3] = b] : x \in H3, b \in Bytes} :
               RlpListTag(s)}
  IN {s.value_rlp_bytes : s \in H4}

\* Before an RLC computation: the cells of a leaf and a challenge, the
\* lengths of a leaf and a challenge, the lengths of the nonce and of the
\* balance, or a pair of byte sequences.
InitRlc ==
  /\ \/ \E c \in LeafBytes, challenge \in LeafChallenges :
          rlc_run = [done |-> FALSE, kind |-> "leaf", challenge |-> challenge, cells |-> c]
     \/ \E c \in MultLens, challenge \in MultChallenges :
          rlc_run = [done |-> FALSE, kind |-> "mults", challenge |-> challenge, cells |-> c]
     \/ \E c \in HeaderLens :
          rlc_run = [done |-> FALSE, kind |-> "header", cells |-> c]
     \/ \E ab \in Pairs :
          rlc_run = [done |-> FALSE, kind |-> "pair", a |-> ab[1], b |-> ab[2]]
  /\ key_memory = NoMemory
  /\ leaf = NoLeaf
  /\ parent_memory = NoMemory
  /\ account = NoAccount
  /\ pv = NoPv
  /\ prev = ZeroRow
  /\ cur = ZeroRow
  /\ leaf_offset = RegionRows
  /\ proof_start = ProofTypeOf(ZeroRow)

\* The multipliers that satisfy their lookups, and the RLC of the leaf.
LeafRlc ==
  /\ rlc_run.kind = "leaf" /\ ~rlc_run.done
  /\ \E mults \in MultCells(rlc_run.cells, rlc_run.challenge) :
       LET c == rlc_run.cells @@ mults
       IN /\ MultLookups(c, rlc_run.challenge)
          /\ rlc_run' = [rlc_run EXCEPT !.done = TRUE, !.cells = c] @@
                        [leaf_rlc |-> leaf_rlc(c, rlc_run.challenge)]
  /\ UNCHANGED leaf_vars
  /\ UNCHANGED selector_vars

\* The RLCs of two byte sequences under every challenge of the field: the
\* challenges under which they are equal.
CompareRlc ==
  /\ rlc_run.kind = "pair" /\ ~rlc_run.done
  /\ rlc_run' = [rlc_run EXCEPT !.done = TRUE] @@
                [equal_under |->
                   {challenge \in 0..(FieldModulus - 1) :
                      rlc_expr(rlc_run.a, challenge) = rlc_expr(rlc_run.b, challenge)}]
  /\ UNCHANGED leaf_vars
  /\ UNCHANGED selector_vars

\* The multipliers assign computes for the lengths of a side.
AssignMults ==
  /\ rlc_run.kind = "mults" /\ ~rlc_run.done
  /\ rlc_run' = [rlc_run EXCEPT !.done = TRUE] @@
                [mult |-> assign_mults(rlc_run.challenge, rlc_run.cells)]
  /\ UNCHANGED leaf_vars
  /\ UNCHANGED selector_vars

\* The headers of the value that pass the RLP consistency checks for the
\* lengths of the nonce and of the balance.
RlpHeader ==
  /\ rlc_run.kind = "header" /\ ~rlc_run.done
  /\ rlc_run' = [rlc_run EXCEPT !.done = TRUE] @@
                [headers |-> HeaderCells(rlc_run.cells)]
  /\ UNCHANGED leaf_vars
  /\ UNCHANGED selector_vars

NextRlc == LeafRlc \/ CompareRlc \/ AssignMults \/ RlpHeader

SpecRlc == InitRlc /\ [][NextRlc]_vars

-----------------------------------------------------------------------------
(* Claims about the Selectors gate *)

\* The row c with its row type replaced by t.
Retype(c, t) == [With(c, [u \in RowTypes |-> 0]) EXCEPT ![t] = 1]

\* C1: on every enabled row of a row sequence that satisfies the Selectors
\* gate, exactly one of the 18 row-type selectors is 1 and all the others
\* are 0.
C1_ExactlyOneRowType ==
  cur.q_enable = 1 =>
    /\ Cardinality(RowTypes) = 18
    /\ \E t \in RowTypes : cur[t] = 1 /\ \A u \in RowTypes \ {t} : cur[u] = 0

\* A non-first enabled row: the last row of a storage leaf.
C1_Witness ==
  cur.q_enable = 1 /\ cur.q_not_first = 1 /\ cur.is_non_existing_storage_row = 1

\* C2: on every enabled row of a row sequence that satisfies the Selectors
\* gate, exactly one of the 7 proof-type selectors is 1 and all the others
\* are 0.
C2_ExactlyOneProofType ==
  cur.q_enable = 1 =>
    /\ Cardinality(ProofTypes) = 7
    /\ \E t \in ProofTypes : cur[t] = 1 /\ \A u \in ProofTypes \ {t} : cur[u] = 0

\* A first-level row that starts a proof with a proof type other than the
\* previous row's.
C2_Witness ==
  /\ cur.q_enable = 1 /\ cur.q_not_first = 1 /\ cur.is_branch_init = 1
  /\ cur.is_storage_mod = 1 /\ prev.is_storage_mod = 0

\* C3: on every enabled row every row-type selector, every proof-type
\* selector and each of not_first_level, is_last_branch_child,
\* is_branch_child * sel1, is_branch_child * sel2, is_modified and
\* is_at_drifted_pos is 0 or 1.
C3_SelectorsBoolean ==
  cur.q_enable = 1 =>
    /\ \A t \in RowTypes \cup ProofTypes : cur[t] \in {0, 1}
    /\ cur.not_first_level \in {0, 1}
    /\ cur.is_last_branch_child \in {0, 1}
    /\ cur.is_branch_child * cur.sel1 \in {0, 1}
    /\ cur.is_branch_child * cur.sel2 \in {0, 1}
    /\ cur.is_modified \in {0, 1}
    /\ cur.is_at_drifted_pos \in {0, 1}

\* A branch child row with sel2 set.
C3_Witness == cur.q_enable = 1 /\ cur.is_branch_child = 1 /\ cur.sel2 = 1

\* C4: in the first row (q_enable set, q_not_first clear) the row type is
\* account leaf key S or branch init, any other row type there leaves the
\* gate unsatisfied, and the transitions are not applied to the row: the
\* gate holds on it whatever the previous row is.
C4_FirstRow ==
  (cur.q_enable = 1 /\ cur.q_not_first = 0) =>
    /\ cur.is_account_leaf_key_s = 1 \/ cur.is_branch_init = 1
    /\ \A t \in RowTypes \ {"is_account_leaf_key_s", "is_branch_init"} :
         ~Gate(prev, Retype(cur, t))
    /\ \A p \in WrapRows : Gate(p, cur)

\* A first row of type account leaf key S whose previous row is a branch
\* child, which is none of its predecessors.
C4_Witness ==
  /\ cur.q_enable = 1 /\ cur.q_not_first = 0
  /\ cur.is_account_leaf_key_s = 1 /\ prev.is_branch_child = 1

\* C5: on every non-first row an account leaf key C row occurs only right
\* after an account leaf key S row, and a branch init row only right after
\* an extension node C, account leaf in added branch or storage leaf non
\* existing row.
C5_Predecessors ==
  cur.q_not_first = 1 =>
    /\ cur.is_account_leaf_key_c = 1 => prev.is_account_leaf_key_s = 1
    /\ cur.is_branch_init = 1 =>
         \/ prev.is_extension_node_c = 1
         \/ prev.is_account_leaf_in_added_branch = 1
         \/ prev.is_non_existing_storage_row = 1

\* A branch init row right after the last row of an account leaf.
C5_Witness ==
  /\ cur.q_not_first = 1 /\ cur.is_branch_init = 1
  /\ prev.is_account_leaf_in_added_branch = 1

\* The row types that follow an account leaf key S row.
C6_Order ==
  << "is_account_leaf_key_s", "is_account_leaf_key_c", "is_non_existing_account_row",
     "is_account_leaf_nonce_balance_s", "is_account_leaf_nonce_balance_c",
     "is_account_leaf_storage_codehash_s", "is_account_leaf_storage_codehash_c",
     "is_account_leaf_in_added_branch" >>

\* C6: the rows that follow an account leaf key S row are, in this order and
\* with nothing in between, key C, non existing account row, nonce balance
\* S, nonce balance C, storage codehash S, storage codehash C, in added
\* branch; and the row at each position is the row the account leaf gadget
\* reads there, in configure and in assign (key S at -1 from the key C row,
\* key C at 0, wrong at +1, ..., drifted at +6).
C6_AccountLeafRows ==
  leaf_offset < RegionRows =>
    /\ RowTypeOf(cur) = {C6_Order[leaf_offset + 1]}
    /\ \E row \in DOMAIN AccountLeafCols :
         /\ configure_offsets[row] = leaf_offset - 1
         /\ assign_offsets[row] = leaf_offset - 1
         /\ AccountLeafCols[row] = C6_Order[leaf_offset + 1]
    /\ \A row \in DOMAIN AccountLeafCols :
         (configure_offsets[row] = leaf_offset - 1 \/ assign_offsets[row] = leaf_offset - 1)
           => cur[AccountLeafCols[row]] = 1

\* The last row of an account leaf, seven rows after its key S row.
C6_Witness ==
  leaf_offset = RegionRows - 1 /\ cur.is_account_leaf_in_added_branch = 1

\* C7: on a non-first row each proof-type flag equals the previous row's
\* when not_first_level is 1, and when not_first_level is 0 it differs from
\* the previous row's only on a branch init or account leaf key S row; so
\* the flags of every row are those of the first row of its proof.
C7_ProofTypePersists ==
  /\ cur.q_not_first = 1 =>
       /\ cur.not_first_level = 1 => ProofTypeOf(cur) = ProofTypeOf(prev)
       /\ (cur.not_first_level = 0 /\ ProofTypeOf(cur) # ProofTypeOf(prev)) =>
            (cur.is_branch_init = 1 \/ cur.is_account_leaf_key_s = 1)
  /\ ProofTypeOf(cur) = proof_start

\* A first-level account leaf key S row whose flags are not the previous
\* row's: a new proof starts.
C7_Witness ==
  /\ cur.q_not_first = 1 /\ cur.not_first_level = 0
  /\ cur.is_account_leaf_key_s = 1
  /\ ProofTypeOf(cur) # ProofTypeOf(prev)

\* The lookup row type and the code of each proof type.
C8_Lookup ==
  [ is_nonce_mod |-> <<"is_account_leaf_nonce_balance_s", 1>>,
    is_balance_mod |-> <<"is_account_leaf_nonce_balance_c", 2>>,
    is_codehash_mod |-> <<"is_account_leaf_storage_codehash_c", 3>>,
    is_non_existing_account_proof |-> <<"is_non_existing_account_row", 4>>,
    is_account_delete_mod |-> <<"is_account_leaf_key_s", 5>>,
    is_storage_mod |-> <<"is_leaf_c_value", 6>>,
    is_non_existing_storage_proof |-> <<"is_non_existing_storage_row", 7>> ]

\* C8: on every enabled row where the proof_type id is nonzero the row is
\* the lookup row of the active proof-type flag and the id is that flag's
\* code; on every other row the id is 0.
C8_ProofTypeId ==
  cur.q_enable = 1 =>
    \/ cur.proof_type = 0
    \/ /\ DOMAIN C8_Lookup = ProofTypes
       /\ \E pt \in ProofTypes :
            /\ cur[pt] = 1
            /\ cur[C8_Lookup[pt][1]] = 1
            /\ cur.proof_type = C8_Lookup[pt][2]

\* An account delete proof with its id on the account leaf key S row.
C8_Witness ==
  /\ cur.q_enable = 1 /\ cur.is_account_delete_mod = 1
  /\ cur.is_account_leaf_key_s = 1 /\ cur.proof_type = 5

\* The predecessors the transitions declare for a row type: columns of the
\* previous row, one of which has to be set.  The branch child row has none
\* declared in this gate.
C9_DeclaredPredecessors ==
  [ is_branch_init |-> {"is_extension_node_c", "is_account_leaf_in_added_branch",
                        "is_non_existing_storage_row"},
    is_account_leaf_key_s |-> {"is_extension_node_c", "is_non_existing_storage_row"},
    is_leaf_s_key |-> {"is_extension_node_c", "is_account_leaf_in_added_branch"},
    is_extension_node_s |-> {"is_last_branch_child"},
    is_extension_node_c |-> {"is_extension_node_s"},
    is_account_leaf_key_c |-> {"is_account_leaf_key_s"},
    is_non_existing_account_row |-> {"is_account_leaf_key_c"},
    is_account_leaf_nonce_balance_s |-> {"is_non_existing_account_row"},
    is_account_leaf_nonce_balance_c |-> {"is_account_leaf_nonce_balance_s"},
    is_account_leaf_storage_codehash_s |-> {"is_account_leaf_nonce_balance_c"},
    is_account_leaf_storage_codehash_c |-> {"is_account_leaf_storage_codehash_s"},
    is_account_leaf_in_added_branch |-> {"is_account_leaf_storage_codehash_c"},
    is_leaf_s_value |-> {"is_leaf_s_key"},
    is_leaf_c_key |-> {"is_leaf_s_value"},
    is_leaf_c_value |-> {"is_leaf_c_key"},
    is_leaf_in_added_branch |-> {"is_leaf_c_value"},
    is_non_existing_storage_row |-> {"is_leaf_in_added_branch"} ]

\* The row p is a declared predecessor of a row of type t.
C9_PredecessorOk(t, p) ==
  t \in DOMAIN C9_DeclaredPredecessors =>
    \E col \in C9_DeclaredPredecessors[t] : p[col] = 1

\* C9: in a row sequence that satisfies the gate, giving a non-first row
\* another row type (any of the 18) so that the declared predecessor set of
\* that row, or of the row after it, is violated leaves the gate
\* unsatisfied.
C9_SubstitutionRejected ==
  cur.q_not_first = 1 =>
    /\ \A t \in RowTypes :
         (cur[t] = 0 /\ ~C9_PredecessorOk(t, prev)) => ~Gate(prev, Retype(cur, t))
    /\ prev.q_not_first = 1 =>
         \A t \in RowTypes :
           (prev[t] = 0 /\ \E u \in RowTypeOf(cur) : ~C9_PredecessorOk(u, Retype(prev, t)))
             => ~Gate(Retype(prev, t), cur)

\* A branch init row after an extension node C row, neither the first row:
\* both rows can be given a type that breaks a predecessor set.
C9_Witness ==
  /\ cur.q_not_first = 1 /\ prev.q_not_first = 1
  /\ prev.is_extension_node_c = 1 /\ cur.is_branch_init = 1
  /\ ~C9_PredecessorOk("is_leaf_s_value", prev)
  /\ ~C9_PredecessorOk("is_branch_init", Retype(prev, "is_branch_child"))

-----------------------------------------------------------------------------
(* Claims about the account leaf *)

\* The key nibbles in a leaf key of key_len bytes: the first byte holds the
\* flag and, when the number of nibbles is odd, one nibble; every other byte
\* holds two.
C10_LeafNibbles(key_len, is_odd) ==
  IF is_odd = 1 THEN 2 * (key_len - 1) + 1 ELSE 2 * (key_len - 1)

\* C10: for both sides of an account leaf that satisfies the constraints,
\* the number of nibbles loaded from the key channel plus the number of key
\* nibbles of the leaf is KEY_LEN_IN_NIBBLES, 64.
C10_NibblesAddUp ==
  \A is_s \in BOOLEAN :
    leaf[is_s].done =>
      LET loaded == key_memory[is_s][Len(key_memory[is_s]) - 1]
      IN loaded.num_nibbles
           + C10_LeafNibbles(leaf[is_s].key_len, loaded.is_odd) = 64

\* Both sides done: the S leaf holds the whole key (no ancestor), the C leaf
\* one byte of it, an odd number of nibbles.
C10_Witness ==
  /\ leaf[TRUE].done /\ leaf[FALSE].done
  /\ leaf[TRUE].key_len = HASH_WIDTH + 1 /\ leaf[TRUE].key_data.num_nibbles = 0
  /\ leaf[FALSE].key_len = 1 /\ leaf[FALSE].key_data.num_nibbles = 63

\* The fields of the account and the proof-type flag of each.  The proof
\* type of a leaf is read on its key C row.
C11_Fields ==
  [ nonce_rlc |-> "is_nonce_mod", balance_rlc |-> "is_balance_mod",
    storage_rlc |-> "is_storage_mod", codehash_rlc |-> "is_codehash_mod" ]

\* C11 as stated: in every account leaf whose proof type is not NonceChanged
\* the nonce RLC of the S side equals that of the C side; likewise the
\* balance unless BalanceChanged, the storage root unless StorageChanged and
\* the code hash unless CodeHashExists.
C11_UnchangedUnlessOwnProofType ==
  account.done =>
    \A x \in DOMAIN C11_Fields :
      account.flags[0][C11_Fields[x]] = 0 => leaf[TRUE][x] = leaf[FALSE][x]

\* C11, amended: in every account leaf whose proof type is neither
\* NonceChanged nor account delete the nonce RLC of the S side equals that
\* of the C side; likewise the balance (BalanceChanged or account delete),
\* the storage root (StorageChanged or account delete) and the code hash
\* (CodeHashExists or account delete).
C11_UnchangedUnlessOwnProofTypeOrDelete ==
  (account.done /\ account.flags[0].is_account_delete_mod = 0) =>
    \A x \in DOMAIN C11_Fields :
      account.flags[0][C11_Fields[x]] = 0 => leaf[TRUE][x] = leaf[FALSE][x]

\* A balance proof: the balance changes, the nonce (not 0) does not.
C11_Witness ==
  /\ account.done /\ account.flags[0].is_balance_mod = 1
  /\ leaf[TRUE].balance_rlc # leaf[FALSE].balance_rlc
  /\ leaf[TRUE].nonce_rlc = 1 /\ leaf[FALSE].nonce_rlc = 1

\* The row offset at which the flag of each field is read.
C12_FlagOffset ==
  [ nonce_rlc |-> 2, balance_rlc |-> 3, storage_rlc |-> 4, codehash_rlc |-> 5 ]

\* The fields whose RLC differs between the S side and the C side.
C12_Changed == {x \in DOMAIN C12_FlagOffset : leaf[TRUE][x] # leaf[FALSE][x]}

\* The cells of the two sides with the fields of the C side replaced.
C12_WithFieldsC(n, b, st, c) ==
  [leaf EXCEPT ![FALSE].nonce_rlc = n, ![FALSE].balance_rlc = b,
               ![FALSE].storage_rlc = st, ![FALSE].codehash_rlc = c]

\* C12: when the proof type is not account delete, a field differs between
\* the S side and the C side only if its own flag, read at row offset +2
\* (nonce), +3 (balance), +4 (storage root), +5 (code hash), is set, and at
\* most one of the four fields differs; when the proof type is account
\* delete none of the four equalities is imposed: the constraint holds
\* whatever the fields of the C side are.
C12_AtMostOneFieldChanges ==
  account.done =>
    IF account.flags[0].is_account_delete_mod = 0
    THEN /\ \A x \in C12_Changed :
              account.flags[C12_FlagOffset[x]][C11_Fields[x]] = 1
         /\ Cardinality(C12_Changed) <= 1
    ELSE \A n, b, st, c \in 0..RlcMax :
           OnlyOneModification(account.flags, C12_WithFieldsC(n, b, st, c))

\* An account delete proof in which all four fields differ.
C12_Witness ==
  /\ account.done /\ account.flags[0].is_account_delete_mod = 1
  /\ Cardinality(C12_Changed) = 4

\* The flags with the account delete flag of the key C row set.
C13_DeleteFlagged == [account.flags EXCEPT ![0].is_account_delete_mod = 1]

\* C13: when the account delete flag is set on the key C row, the KeyData
\* loaded on the C side has is_placeholder_leaf_c set or the ParentData
\* loaded on the C side has is_placeholder set; with neither set, a set
\* account delete flag leaves the constraint unsatisfied.
C13_DeleteNeedsPlaceholderOnC ==
  account.done =>
    LET on_c == \/ leaf[FALSE].key_data.is_placeholder_leaf_c = 1
                \/ leaf[FALSE].parent_data.is_placeholder = 1
    IN /\ account.flags[0].is_account_delete_mod = 1 => on_c
       /\ ~on_c => ~AccountDelete(C13_DeleteFlagged, leaf)

\* An account delete proof whose C side is under a placeholder branch, with
\* no placeholder leaf, and whose S side is under no placeholder.
C13_Witness ==
  /\ account.done /\ account.flags[0].is_account_delete_mod = 1
  /\ leaf[FALSE].parent_data.is_placeholder = 1
  /\ leaf[FALSE].key_data.is_placeholder_leaf_c = 0
  /\ leaf[TRUE].parent_data.is_placeholder = 0

\* The keccak lookup is required of the side s: some leaf RLC is refused.
C14_Required(s) ==
  \E l \in 0..RlcMax : ~KeccakLookup([s EXCEPT !.leaf_rlc = l])

\* C14 as stated: on each side the keccak lookup is required if and only if
\* the parent is neither the empty trie nor a placeholder.
C14_LookupIffNeitherEmptyNorPlaceholder ==
  account.done =>
    \A is_s \in BOOLEAN :
      C14_Required(leaf[is_s]) <=>
        /\ leaf[is_s].parent_data.rlc # EmptyTrieRlc
        /\ leaf[is_s].parent_data.is_placeholder = 0

\* C14, amended: on each side the keccak lookup of (1, leaf_rlc, leaf byte
\* length, parent rlc) is required if and only if the parent is a
\* placeholder or is not the empty trie, and then the tuple is in the
\* keccak table; the lookup is elided exactly when the parent is the empty
\* trie and not a placeholder, the case of a placeholder leaf.
C14_LookupUnlessPlaceholderLeaf ==
  account.done =>
    \A is_s \in BOOLEAN :
      LET s == leaf[is_s]
          placeholder_leaf == /\ s.parent_data.rlc = EmptyTrieRlc
                              /\ s.parent_data.is_placeholder = 0
      IN /\ C14_Required(s) <=> ~placeholder_leaf
         /\ ~placeholder_leaf =>
              <<1, s.leaf_rlc, s.num_bytes, s.parent_data.rlc>> \in KeccakTable

\* The S side is under a placeholder parent and its lookup is made; the C
\* side is a placeholder leaf under the empty trie and its lookup is elided.
C14_Witness ==
  /\ account.done
  /\ leaf[TRUE].parent_data.is_placeholder = 1
  /\ C14_Required(leaf[TRUE])
  /\ leaf[FALSE].parent_data.rlc = EmptyTrieRlc
  /\ leaf[FALSE].parent_data.is_placeholder = 0
  /\ ~C14_Required(leaf[FALSE])

\* C15: on each side the header bytes of the value satisfy: string tag =
\* RLP_LONG + 1, string length = list length + 2, list tag = RLP_LIST_LONG
\* + 1, list length = nonce bytes + balance bytes + 66, and the leaf's
\* total byte length = bytes on the key row + string length + 2; hence the
\* total is bytes on the key row + nonce bytes + balance bytes + 70.
C15_RlpHeader ==
  account.done =>
    \A is_s \in BOOLEAN :
      LET s == leaf[is_s]
          string_tag == s.value_rlp_bytes[1]
          string_len == s.value_rlp_bytes[2]
          list_tag == s.value_rlp_bytes[3]
          list_len == s.value_rlp_bytes[4]
      IN /\ string_tag = RLP_LONG + 1
         /\ string_len = list_len + 2
         /\ list_tag = RLP_LIST_LONG + 1
         /\ list_len = s.nonce_num_bytes + s.balance_num_bytes + 66
         /\ s.num_bytes = s.num_bytes_on_key_row + string_len + 2
         /\ s.num_bytes =
              s.num_bytes_on_key_row + s.nonce_num_bytes + s.balance_num_bytes + 70

\* A leaf whose nonce and balance have different numbers of bytes on the S
\* side, and whose two sides have different total lengths.
C15_Witness ==
  /\ account.done
  /\ leaf[TRUE].nonce_num_bytes # leaf[TRUE].balance_num_bytes
  /\ leaf[TRUE].num_bytes # leaf[FALSE].num_bytes
  /\ leaf[TRUE].num_bytes_on_key_row # leaf[FALSE].num_bytes_on_key_row

\* The cells of a side with other lengths of the storage root and code hash.
C16_WithLens(s, storage_len, codehash_len) ==
  [s EXCEPT !.storage_len = storage_len, !.codehash_len = codehash_len]

\* C16: on both sides the length of the storage root and the length of the
\* code hash are exactly 32 (HASH_WIDTH); with any other length of either
\* the constraints of the side are unsatisfied.
C16_HashesAre32Bytes ==
  \A is_s \in BOOLEAN :
    leaf[is_s].done =>
      /\ leaf[is_s].storage_len = 32 /\ HASH_WIDTH = 32
      /\ leaf[is_s].codehash_len = 32
      /\ \A n \in HashLens :
           /\ SideConstraints(C16_WithLens(leaf[is_s], n, 32)) <=> n = 32
           /\ SideConstraints(C16_WithLens(leaf[is_s], 32, n)) <=> n = 32

\* A configured leaf with 32-byte hashes on both sides, for which a 31-byte
\* code hash on the S side and a 33-byte storage root on the C side are
\* refused.
C16_Witness ==
  /\ account.done
  /\ \A is_s \in BOOLEAN :
       leaf[is_s].storage_len = HASH_WIDTH /\ leaf[is_s].codehash_len = HASH_WIDTH
  /\ ~HashLengths(C16_WithLens(leaf[TRUE], 32, 31))
  /\ ~HashLengths(C16_WithLens(leaf[FALSE], 33, 32))

\* The ParentData on top of the parent channel of a side, as configure and
\* as assign left it.
C17_Stored(is_s) == parent_memory[is_s][Len(parent_memory[is_s])]

C17_StoredByAssign(is_s) == pv.parent_memory[is_s][Len(pv.parent_memory[is_s])]

\* C17: after the leaf is processed for a side, the ParentData stored in
\* the side's parent channel, with the fields in the order {rlc,
\* is_placeholder, is_placeholder_leaf, hash_rlc}, has rlc and hash_rlc
\* equal to the side's storage-root RLC and is_placeholder = false, and
\* assign stores the same tuple as configure.
C17_StoredParentData ==
  \A is_s \in BOOLEAN :
    /\ leaf[is_s].done =>
         /\ C17_Stored(is_s).rlc = leaf[is_s].storage_rlc
         /\ C17_Stored(is_s).hash_rlc = leaf[is_s].storage_rlc
         /\ C17_Stored(is_s).is_placeholder = 0
    /\ pv.side[is_s].done => C17_StoredByAssign(is_s) = C17_Stored(is_s)

\* What does hold of the stored ParentData: rlc and hash_rlc are the
\* storage-root RLC, the second field is 1 and the third 0, and assign
\* stores the same tuple as configure.
C17_StoredAsCoded ==
  \A is_s \in BOOLEAN :
    /\ leaf[is_s].done =>
         C17_Stored(is_s) =
           ParentData(leaf[is_s].storage_rlc, 1, 0, leaf[is_s].storage_rlc)
    /\ pv.side[is_s].done => C17_StoredByAssign(is_s) = C17_Stored(is_s)

\* The side is_s is under a parent that is not a placeholder, in a proof
\* that is not a non-existing-account proof.
C18_Gated(is_s) ==
  /\ leaf[is_s].parent_data.is_placeholder = 0
  /\ account.flags[0].is_non_existing_account_proof = 0

\* C18: on a side whose parent is not a placeholder, in a proof that is not
\* a non-existing-account proof, key_rlc equals the address_rlc of the key C
\* row; on any other side no equality is imposed: the constraint holds
\* whatever the key bytes of that side add.  Consequently key_rlc of S
\* equals key_rlc of C when neither parent is a placeholder and the proof is
\* not a non-existing-account proof.
C18_KeyRlcIsAddressRlc ==
  account.done =>
    /\ \A is_s \in BOOLEAN :
         IF C18_Gated(is_s)
         THEN KeyRlc(leaf[is_s]) = account.mpt_table.address_rlc
         ELSE \A k \in 0..RlcMax :
                AddressRlc(account.flags, [leaf EXCEPT ![is_s].key_part = k],
                           account.mpt_table)
    /\ (C18_Gated(TRUE) /\ C18_Gated(FALSE)) => KeyRlc(leaf[TRUE]) = KeyRlc(leaf[FALSE])

\* The S side is under a plain branch and its key_rlc, not zero, is the
\* address_rlc; the C side is under a placeholder and its key_rlc differs.
C18_Witness ==
  /\ account.done
  /\ C18_Gated(TRUE) /\ ~C18_Gated(FALSE)
  /\ account.mpt_table.address_rlc > 0
  /\ KeyRlc(leaf[TRUE]) = account.mpt_table.address_rlc
  /\ KeyRlc(leaf[FALSE]) # account.mpt_table.address_rlc

\* The value_prev and value columns that carry the fields of the sides S
\* and C: nonce at row offset +2, balance +3, storage root +4, code hash +5.
C19_Columns(S, C) ==
  [ value_prev |-> (2 :> S.nonce_rlc) @@ (3 :> S.balance_rlc) @@
                   (4 :> S.storage_rlc) @@ (5 :> S.codehash_rlc),
    value |-> (2 :> C.nonce_rlc) @@ (3 :> C.balance_rlc) @@
              (4 :> C.storage_rlc) @@ (5 :> C.codehash_rlc) ]

\* C19: the mpt_table columns satisfy value_prev = the S-side RLC and value
\* = the C-side RLC for the nonce at row offset +2, the balance at +3, the
\* storage root at +4 and the code hash at +5, whatever the proof type is,
\* and assign writes the same RLCs into the same cells.
C19_LookupData ==
  LET c == C19_Columns(leaf[TRUE], leaf[FALSE])
  IN /\ account.done =>
          /\ account.mpt_table.value_prev = c.value_prev
          /\ account.mpt_table.value = c.value
     /\ pv.done =>
          /\ pv.value_prev = c.value_prev
          /\ pv.value = c.value

\* An account delete proof, assigned, in which the nonce and the code hash
\* differ between the sides: value_prev and value differ at +2 and +5.
C19_Witness ==
  /\ pv.done
  /\ account.flags[0].is_account_delete_mod = 1
  /\ account.mpt_table.value_prev[2] # account.mpt_table.value[2]
  /\ pv.value_prev[5] # pv.value[5]

\* The most recent store of a channel.
C20_Top(memory) == memory[Len(memory)]

\* A step in which the side is_s of record sides loads loaded_key and
\* loaded_parent while the channels go from key/parent to key2/parent2:
\* what is loaded is the top of each channel before the step, the step
\* stores one tuple on each channel, and a load after the step returns that
\* tuple.
C20_LoadsThenStores(loaded_key, loaded_parent, key, key2, parent, parent2) ==
  /\ loaded_key = C20_Top(key)
  /\ loaded_parent = C20_Top(parent)
  /\ \E k \in {C20_Top(key2)} : key2 = Append(key, k) /\ KeyDataLoad(key2, 0) = k
  /\ \E p \in {C20_Top(parent2)} :
       parent2 = Append(parent, p) /\ ParentDataLoad(parent2, 0) = p

\* C20: each side loads its KeyData and its ParentData from the top of its
\* channels (offset 0) before it stores its own, in configure and in
\* assign alike; a load returns the most recent store (last in, first out).
C20_LoadTopBeforeStore ==
  [][\A is_s \in BOOLEAN :
       /\ (~leaf[is_s].done /\ leaf'[is_s].done) =>
            C20_LoadsThenStores(leaf'[is_s].key_data, leaf'[is_s].parent_data,
                                key_memory[is_s], key_memory'[is_s],
                                parent_memory[is_s], parent_memory'[is_s])
       /\ (~pv.side[is_s].done /\ pv'.side[is_s].done) =>
            C20_LoadsThenStores(pv'.side[is_s].key_data, pv'.side[is_s].parent_data,
                                pv.key_memory[is_s], pv'.key_memory[is_s],
                                pv.parent_memory[is_s], pv'.parent_memory[is_s])]_vars

\* Both sides configured and assigned on channels two stores deep: the C
\* side loaded the later store of its ancestors, not the earlier one and
\* not what the leaf itself stored, in configure and in assign.
C20_Witness ==
  /\ pv.side[FALSE].done
  /\ Len(key_memory[FALSE]) = 3 /\ Len(pv.parent_memory[FALSE]) = 3
  /\ leaf[FALSE].key_data = key_memory[FALSE][2]
  /\ leaf[FALSE].key_data \notin {key_memory[FALSE][1], key_memory[FALSE][3]}
  /\ pv.side[FALSE].parent_data = pv.parent_memory[FALSE][2]
  /\ pv.side[FALSE].parent_data \notin
       {pv.parent_memory[FALSE][1], pv.parent_memory[FALSE][3]}

\* A step that processes the side is_s (done goes from FALSE to TRUE on the
\* side record) leaves the channels of the other side as they were, and
\* what it loads is the top of the channels of its own side.
C21_OwnChannelsOnly(is_s, side, side2, key, key2, parent, parent2) ==
  (~side[is_s].done /\ side2[is_s].done) =>
    /\ key2[~is_s] = key[~is_s]
    /\ parent2[~is_s] = parent[~is_s]
    /\ side2[is_s].key_data = key[is_s][Len(key[is_s])]
    /\ side2[is_s].parent_data = parent[is_s][Len(parent[is_s])]
    /\ Len(key2[is_s]) = Len(key[is_s]) + 1
    /\ Len(parent2[is_s]) = Len(parent[is_s]) + 1

\* C21: the channels of the two sides are independent: every load and store
\* of the account leaf for one side touches only the key channel and the
\* parent channel of that side and leaves those of the other side
\* unchanged, in configure and in assign, so that what one side stored is
\* never what the other side loads.
C21_SidesIndependent ==
  [][\A is_s \in BOOLEAN :
       /\ C21_OwnChannelsOnly(is_s, leaf, leaf', key_memory, key_memory',
                              parent_memory, parent_memory')
       /\ C21_OwnChannelsOnly(is_s, pv.side, pv'.side, pv.key_memory, pv'.key_memory,
                              pv.parent_memory, pv'.parent_memory)]_vars

\* Both sides configured and assigned: the C side loaded, after the S side
\* had stored, a ParentData and a KeyData that are not what the S side
\* stored, and each channel holds one store of the leaf.
C21_Witness ==
  /\ pv.side[FALSE].done
  /\ leaf[FALSE].parent_data # parent_memory[TRUE][Len(parent_memory[TRUE])]
  /\ leaf[FALSE].key_data # key_memory[TRUE][Len(key_memory[TRUE])]
  /\ pv.side[FALSE].parent_data # pv.parent_memory[TRUE][Len(pv.parent_memory[TRUE])]
  /\ leaf[TRUE].parent_data # leaf[FALSE].parent_data

\* The witness of pv holds every row from base_offset - 1 to base_offset + 6.
C22_RowsInWitness ==
  \A d \in -1..6 : 0 <= pv.base_offset + d /\ pv.base_offset + d < pv.witness_len

\* C22: assign of an account leaf at base_offset aborts when the witness
\* does not hold every row from base_offset - 1 to base_offset + 6, the case
\* of base_offset 0 included; when it aborts for this no cell has been
\* assigned and no channel has been read or modified: the rows are read
\* before any load, store or assignment.
C22_AbortsOnMissingRows ==
  [][/\ (pv.rows = "unread" /\ pv' # pv) =>
          /\ pv'.error = "rows" <=> ~C22_RowsInWitness'
          /\ pv'.error = "rows" =>
               /\ pv'.rows = "unread" /\ ~pv'.done
               /\ pv'.side = NoLeaf
               /\ pv'.key_memory = pv.key_memory
               /\ pv'.parent_memory = pv.parent_memory
          /\ pv'.error # "rows" => pv'.rows = "read" /\ pv'.error = "none"
     /\ pv.error = "rows" => pv' = pv]_vars

\* Assign has aborted on a leaf at base_offset 0, whose key S row would be
\* row -1, with nothing assigned and the channels as the ancestors left them.
C22_Witness ==
  /\ account.done
  /\ pv.error = "rows" /\ pv.base_offset = 0 /\ pv.witness_len > 7
  /\ pv.side = NoLeaf
  /\ Len(pv.key_memory[TRUE]) = 2 /\ Len(pv.parent_memory[FALSE]) = 2

\* The side whose pass of the loop of assign is next.
C23_Loading == IF pv.side[TRUE].done THEN FALSE ELSE TRUE

\* No multiplier of the side is_s is assigned in p and its stores are not
\* performed.
C23_Untouched(p, is_s) == "mult" \notin DOMAIN p.side[is_s] /\ is_s \notin p.stores

\* No MPT-table value and no proof-type cell is assigned in p.
C23_NoLookupData(p) ==
  ~p.done /\ DOMAIN p \cap {"proof_type", "value_prev", "value"} = {}

\* A step of assign in which a load fails.
C23_LoadFails == pv.error = "none" /\ pv'.error = "load"

\* C23 as stated: when a load fails for want of a store, no multiplier, no
\* MPT-table value and no proof-type cell of the leaf has been assigned and
\* none of the leaf's own stores has been performed.
C23_FailsBeforeAnything ==
  [][C23_LoadFails =>
       /\ C23_NoLookupData(pv')
       /\ \A is_s \in BOOLEAN : C23_Untouched(pv', is_s)]_vars

\* C23, amended: assign of a leaf fails at the load from a key or parent
\* channel without a store, and only there; it fails before any MPT-table
\* value or proof-type cell is assigned and before the multipliers of the
\* side that loads are assigned and the stores of that side performed, and
\* leaves the channels as they were; when the load that fails is on the C
\* side, the multipliers of the S side are assigned and its stores
\* performed.
C23_FailsAtLoad ==
  [][/\ (pv.rows = "read" /\ pv.error = "none" /\ ~pv.done /\ pv' # pv
           /\ ~(pv.side[TRUE].done /\ pv.side[FALSE].done)) =>
          (pv'.error = "load" <=> \/ pv.key_memory[C23_Loading] = <<>>
                                  \/ pv.parent_memory[C23_Loading] = <<>>)
     /\ C23_LoadFails =>
          /\ C23_NoLookupData(pv')
          /\ C23_Untouched(pv', C23_Loading)
          /\ pv'.key_memory = pv.key_memory
          /\ pv'.parent_memory = pv.parent_memory
          /\ ~C23_Loading => ~C23_Untouched(pv', TRUE)
     /\ pv.error = "load" => pv' = pv]_vars

\* The load of the ParentData of the C side has failed: the S side has its
\* multipliers and has stored, the C side has loaded its KeyData only.
C23_Witness ==
  /\ pv.error = "load"
  /\ pv.side[TRUE].done /\ TRUE \in pv.stores
  /\ pv.key_memory[FALSE] # <<>> /\ pv.parent_memory[FALSE] = <<>>
  /\ DOMAIN pv.side[FALSE] = {"done", "key_data"}

\* The bytes of the leaf, one after the other: the bytes on the key row, the
\* four header bytes, the bytes of the nonce, those of the balance, the 33
\* of the storage root and the 33 of the code hash.
C24_LeafBytes(c) ==
  SubSeq(c.key_bytes, 1, c.num_bytes_on_key_row) \o c.value_rlp_bytes
    \o SubSeq(c.nonce_bytes, 1, c.nonce_num_bytes)
    \o SubSeq(c.balance_bytes, 1, c.balance_num_bytes)
    \o c.storage_bytes \o c.codehash_bytes

\* r^n in the field, by squaring.
RECURSIVE C24_Power(_, _)
C24_Power(r, n) ==
  IF n = 0 THEN 1
  ELSE LET h == C24_Power(r, n \div 2)
       IN IF n % 2 = 0 THEN (h * h) % FieldModulus
          ELSE (((h * h) % FieldModulus) * r) % FieldModulus

\* sum(byte[i] * r^i) over the bytes at the indices lo..hi, the first byte
\* of the sequence having i = 0.
RECURSIVE C24_Sum(_, _, _, _)
C24_Sum(bytes, r, lo, hi) ==
  IF lo > hi THEN 0
  ELSE IF lo = hi THEN (bytes[lo] * C24_Power(r, lo - 1)) % FieldModulus
  ELSE LET mid == (lo + hi) \div 2
       IN (C24_Sum(bytes, r, lo, mid) + C24_Sum(bytes, r, mid + 1, hi)) % FieldModulus

\* The flat RLC of a byte sequence.
C24_Flat(bytes, r) == C24_Sum(bytes, r, 1, Len(bytes))

\* C24: with key_mult = r^(bytes on the key row), nonce_mult = r^(nonce
\* bytes + 4) and balance_mult = r^(balance bytes), the chained leaf_rlc =
\* key RLC + key_mult * (rlc(header bytes, nonce) + nonce_mult * (balance +
\* balance_mult * (storage + r^33 * codehash))) equals the flat RLC
\* sum(byte[i] * r^i) of the bytes of the leaf, one after the other.
C24_ChainIsFlatRlc ==
  (rlc_run.done /\ rlc_run.kind = "leaf") =>
    LET c == rlc_run.cells
        r == rlc_run.challenge
    IN (/\ c.key_mult = FPow(r, c.num_bytes_on_key_row)
        /\ c.nonce_mult = FPow(r, c.nonce_num_bytes + 4)
        /\ c.balance_mult = FPow(r, c.balance_num_bytes))
       => rlc_run.leaf_rlc = C24_Flat(C24_LeafBytes(c), r)

\* The RLC of a leaf of 35 + 4 + 2 + 1 + 33 + 33 bytes is computed with the
\* challenge 3, its multipliers being the powers the lookups give.
C24_Witness ==
  /\ rlc_run.done /\ rlc_run.kind = "leaf" /\ rlc_run.challenge = 3
  /\ Len(C24_LeafBytes(rlc_run.cells)) = 108
  /\ rlc_run.cells.nonce_num_bytes = 2 /\ rlc_run.cells.balance_num_bytes = 1
  /\ rlc_run.cells.nonce_mult = FPow(3, 6)
  /\ rlc_run.leaf_rlc = C24_Flat(C24_LeafBytes(rlc_run.cells), 3)
  /\ rlc_run.leaf_rlc # 0

\* What the start of assign makes of pv on a witness of witness_len rows
\* for a leaf at base_offset.
C25_Rows(p, witness_len, base_offset) ==
  LET q == p @@ [witness_len |-> witness_len, base_offset |-> base_offset]
  IN IF base_offset >= 1 /\ base_offset + 6 <= witness_len - 1
     THEN [q EXCEPT !.rows = "read"]
     ELSE [q EXCEPT !.error = "rows"]

\* What the pass of the loop of assign for the side is_s makes of pv.
C25_Pass(p, is_s) ==
  LET k == p.key_memory[is_s]
      q == p.parent_memory[is_s]
      st == leaf[is_s].storage_rlc
  IN CASE k = <<>> -> [p EXCEPT !.error = "load"]
       [] k # <<>> /\ q = <<>> ->
            [p EXCEPT !.error = "load",
                      !.side[is_s] = [done |-> FALSE, key_data |-> k[Len(k)]]]
       [] OTHER ->
            [p EXCEPT
               !.side[is_s] =
                 [done |-> TRUE, key_data |-> k[Len(k)], parent_data |-> q[Len(q)],
                  mult |-> [nonce_mult |-> C24_Power(account.r, leaf[is_s].nonce_num_bytes + 4),
                            balance_mult |-> C24_Power(account.r, leaf[is_s].balance_num_bytes),
                            key_mult |-> C24_Power(account.r, leaf[is_s].num_bytes_on_key_row)]],
               !.stores = @ \cup {is_s},
               !.key_memory[is_s] = k \o <<KeyDataDefault>>,
               !.parent_memory[is_s] = q \o <<ParentData(st, 1, 0, st)>>]

\* What the end of assign makes of pv: the lookup data.
C25_Lookup(p) ==
  LET f == account.flags
      Field(is_s) == (2 :> leaf[is_s].nonce_rlc) @@ (3 :> leaf[is_s].balance_rlc) @@
                     (4 :> leaf[is_s].storage_rlc) @@ (5 :> leaf[is_s].codehash_rlc)
  IN [p EXCEPT !.done = TRUE] @@
     [ proof_type |->
         (-1 :> IF f[-1].is_account_delete_mod = 1 THEN ProofType.AccountDoesNotExist ELSE 0) @@
         (2 :> IF f[2].is_nonce_mod = 1 THEN ProofType.NonceChanged ELSE 0) @@
         (3 :> IF f[3].is_balance_mod = 1 THEN ProofType.BalanceChanged ELSE 0) @@
         (4 :> 0) @@
         (5 :> IF f[5].is_codehash_mod = 1 THEN ProofType.CodeHashExists ELSE 0),
       value_prev |-> Field(TRUE), value |-> Field(FALSE) ]

C26_RlcInjective ==
  (rlc_run.done /\ rlc_run.kind = "pair") =>
    /\ Len(rlc_run.a) = Len(rlc_run.b)
    /\ rlc_run.a # rlc_run.b =>
         /\ Cardinality(rlc_run.equal_under) < Len(rlc_run.a)
         /\ \E r \in 0..(FieldModulus - 1) : r \notin rlc_run.equal_under
    /\ rlc_run.a = rlc_run.b => rlc_run.equal_under = 0..(FieldModulus - 1)

\* Two distinct sequences of three bytes whose RLCs are equal under two
\* challenges and under no other.
C26_Witness ==
  /\ rlc_run.done /\ rlc_run.kind = "pair"
  /\ Len(rlc_run.a) = 3 /\ rlc_run.a # rlc_run.b
  /\ Cardinality(rlc_run.equal_under) = 2

\* The parent data a side can have loaded.
C27_ParentData ==
  [ rlc : 0..RlcMax, is_placeholder : 0..1,
    is_placeholder_leaf : 0..1, hash_rlc : 0..RlcMax ]

\* The keccak lookup of the side s is skipped: every leaf RLC passes.
C27_Skipped(s) ==
  \A l \in 0..RlcMax : KeccakLookup([s EXCEPT !.leaf_rlc = l])

\* C27: for each side, and whatever parent data the side has loaded, the
\* keccak lookup of the leaf into its parent is skipped exactly when
\* parent_data.is_placeholder is false and the parent rlc is the root of the
\* empty trie; in every other case it is required, and so in every case
\* where parent_data.is_placeholder is true, the parent rlc being the
\* empty-trie root or not.
C27_SkippedExactlyForPlaceholderLeaf ==
  account.done =>
    \A is_s \in BOOLEAN : \A parent_data \in C27_ParentData :
      LET s == [leaf[is_s] EXCEPT !.parent_data = parent_data]
      IN /\ C27_Skipped(s) <=>
              /\ parent_data.is_placeholder = 0
              /\ IsEmptyTree(parent_data.rlc) = 1
         /\ parent_data.is_placeholder = 1 =>
              \A l \in 0..RlcMax :
                KeccakLookup([s EXCEPT !.leaf_rlc = l]) <=>
                  <<1, l, s.num_bytes, parent_data.rlc>> \in KeccakTable

\* The S side is a placeholder leaf under the empty trie, its lookup
\* skipped; the C side is under a placeholder parent that is not the empty
\* trie and its lookup holds.
C27_Witness ==
  /\ account.done
  /\ leaf[TRUE].parent_data.is_placeholder = 0
  /\ IsEmptyTree(leaf[TRUE].parent_data.rlc) = 1
  /\ C27_Skipped(leaf[TRUE])
  /\ leaf[FALSE].parent_data.is_placeholder = 1
  /\ ~C27_Skipped(leaf[FALSE])
  /\ <<1, leaf[FALSE].leaf_rlc, leaf[FALSE].num_bytes,
       leaf[FALSE].parent_data.rlc>> \in KeccakTable

\* The row at offset o of the leaf as assign leaves it for the Selectors
\* gate: the row type of the offset, the proof-type flags of the proof and
\* the proof_type id written.
C28_Row(o) ==
  LET k == CHOOSE x \in DOMAIN assign_offsets : assign_offsets[x] = o
      typed == [ZeroRow EXCEPT ![AccountLeafCols[k]] = 1, !.q_enable = 1,
                               !.proof_type = pv.proof_type[o]]
  IN With(typed, account.flags[o])

\* The rows whose id the gate accepts.
C28_Accepted == {o \in DOMAIN pv.proof_type : ProofTypeLookupRows(C28_Row(o))}

\* C28: the proof-type id that assign writes on a row of the account leaf
\* is the code the Selectors gate requires on that row type, the 1-based
\* position of the flag in the ProofType order, for nonce, balance, codehash
\* and account delete proofs; the id on the account leaf key S row of an
\* account delete proof is the account delete code.
C28_AssignedIdPassesGate ==
  pv.done =>
    /\ C28_Accepted = DOMAIN pv.proof_type
    /\ account.flags[assign_offsets.key_s].is_account_delete_mod = 1 =>
         pv.proof_type[assign_lookup_offsets.key_s] = ProofType.AccountDestructed

\* What does hold: the ids on the nonce, balance and codehash lookup rows
\* pass the gate, and the id on the key S row of an account delete proof is
\* that of AccountDoesNotExist.
C28_AssignedAsCoded ==
  pv.done =>
    /\ DOMAIN pv.proof_type \ {assign_lookup_offsets.key_s} \subseteq C28_Accepted
    /\ account.flags[assign_offsets.key_s].is_account_delete_mod = 1 =>
         /\ pv.proof_type[assign_lookup_offsets.key_s] = ProofType.AccountDoesNotExist
         /\ assign_lookup_offsets.key_s \notin C28_Accepted
    /\ account.flags[assign_offsets.key_s].is_account_delete_mod = 0 =>
         assign_lookup_offsets.key_s \in C28_Accepted

C30_AccKeySAfterBranchOrStorageLeaf ==
  (cur.q_enable = 1 /\ cur.q_not_first = 1 /\ cur.is_account_leaf_key_s = 1) =>
    /\ \/ prev.is_extension_node_c = 1
       \/ prev[is_leaf_non_existing] = 1
    /\ prev.is_account_leaf_in_added_branch = 0

\* The account leaf of a new proof right after the last row of a storage
\* leaf.
C30_Witness ==
  /\ cur.q_enable = 1 /\ cur.q_not_first = 1 /\ cur.is_account_leaf_key_s = 1
  /\ prev[is_leaf_non_existing] = 1
  /\ prev.is_extension_node_c = 0
  /\ IsProofStart(cur)

\* The flags the account leaf gadget reads, and the offset from the key C
\* row it reads each at.
C31_Reads ==
  { <<"is_account_delete_mod", 0>>, <<"is_non_existing_account_proof", 0>>,
    <<"is_non_existing_account_proof", 1>>, <<"is_nonce_mod", 2>>,
    <<"is_balance_mod", 3>>, <<"is_storage_mod", 4>>, <<"is_codehash_mod", 5>> }

\* C31: the seven proof-type flags have the same values on all eight rows
\* of an account leaf (offsets -1..6 from the key C row): each row after the
\* key S row has the flags of the row before it, which are the flags of the
\* proof, unchanged since the key S row, with exactly one flag set; so the
\* flags the account leaf gadget reads at offsets 0..5 are those of one
\* proof type.
C31_FlagsSameOnLeafRows ==
  [][ leaf_offset' \in 1..(RegionRows - 1) =>
        /\ leaf_offset = leaf_offset' - 1
        /\ ProofTypeOf(cur') = ProofTypeOf(cur)
        /\ proof_start' = proof_start
        /\ ProofTypeOf(cur') = proof_start
        /\ Cardinality({pt \in ProofTypes : proof_start[pt] = 1}) = 1
        /\ \A pt \in ProofTypes : proof_start[pt] \in {0, 1}
        /\ \A read \in C31_Reads :
             (read[2] = leaf_offset' - 1) => cur'[read[1]] = proof_start[read[1]]
    ]_vars

\* The last row of the account leaf of a first-level non existing account
\* proof, with the flag still set.
C31_Witness ==
  /\ leaf_offset = RegionRows - 1
  /\ cur.not_first_level = 0 /\ prev.not_first_level = 0
  /\ cur.is_non_existing_account_proof = 1
  /\ proof_start = ProofTypeOf(cur)

\* C32: the multipliers assign computes by repeated multiplication for the
\* lengths of a side (key_mult for the bytes on the key row, nonce_mult for
\* the bytes of the nonce + 4, balance_mult for the bytes of the balance)
\* satisfy the three RMult lookups of configure for the same lengths, and
\* are the only cell values that do.
C32_AssignedMultsPassLookups ==
  (rlc_run.done /\ rlc_run.kind = "mults") =>
    /\ MultLookups(rlc_run.cells @@ rlc_run.mult, rlc_run.challenge)
    /\ MultCells(rlc_run.cells, rlc_run.challenge) = {rlc_run.mult}

\* The multipliers of a nonce of 33 bytes under challenge 3: the three are
\* different powers.
C32_Witness ==
  /\ rlc_run.done /\ rlc_run.kind = "mults" /\ rlc_run.challenge = 3
  /\ rlc_run.cells.nonce_num_bytes = HASH_WIDTH + 1
  /\ rlc_run.mult.nonce_mult # rlc_run.mult.key_mult
  /\ rlc_run.mult.nonce_mult # rlc_run.mult.balance_mult
  /\ rlc_run.mult.balance_mult = 3

\* The starting values of the key state.
C33_Default ==
  [ rlc |-> 0, mult |-> 1, num_nibbles |-> 0, is_odd |-> 0,
    is_placeholder_leaf_c |-> 0, is_placeholder_leaf_s |-> 0 ]

\* The channel holds the starting values on top of the key data loaded, and
\* the next load at offset 0 returns them.
C33_Reset(memory, loaded) ==
  /\ Len(memory) >= 2
  /\ memory[Len(memory)] = C33_Default
  /\ memory[Len(memory) - 1] = loaded
  /\ KeyDataLoad(memory, 0) = C33_Default

\* C33: once the account leaf has been processed for a side, in configure
\* and in assign, the key channel of the side holds the default KeyData (rlc
\* 0, mult 1, num_nibbles 0, is_odd false, both placeholder-leaf flags
\* false) on top, whatever KeyData the side had loaded, so that the next
\* load of the channel starts the key from scratch.
C33_KeyChannelReset ==
  \A is_s \in BOOLEAN :
    /\ leaf[is_s].done => C33_Reset(key_memory[is_s], leaf[is_s].key_data)
    /\ pv.side[is_s].done => C33_Reset(pv.key_memory[is_s], pv.side[is_s].key_data)

\* Both sides assigned, the C side having loaded key data with a nibble
\* used and the placeholder-leaf flag of C set.
C33_Witness ==
  /\ pv.side[TRUE].done /\ pv.side[FALSE].done
  /\ pv.side[FALSE].key_data.num_nibbles = 1
  /\ pv.side[FALSE].key_data.is_placeholder_leaf_c = 1
  /\ pv.side[FALSE].key_data # C33_Default
  /\ leaf[FALSE].key_data = pv.side[FALSE].key_data

\* The RLP prefix of a payload of len bytes, long the tag before the first
\* long form (183 for a string, 247 for a list): one byte up to 55 bytes,
\* then the tag of the number of length bytes and the length bytes.
C34_Prefix(long, len) ==
  IF len <= 55 THEN <<long - 55 + len>>
  ELSE IF len < 256 THEN <<long + 1, len>>
  ELSE <<long + 2, len \div 256, len % 256>>

\* C34: for encoded nonce and balance lengths of 1 to 33 bytes, the list
\* length nonce bytes + balance bytes + 66 and the string length, the list
\* length + 2, are above 55 and below 256, so header bytes that pass the
\* checks exist, and the one header that passes is the RLP form of the two
\* lengths: RLP_LONG + 1 and RLP_LIST_LONG + 1, each with one length byte.
C34_LongFormOneLengthByte ==
  (rlc_run.done /\ rlc_run.kind = "header") =>
    LET list_len == rlc_run.cells.nonce_num_bytes + rlc_run.cells.balance_num_bytes
                      + 2 * (1 + HASH_WIDTH)
        string_len == list_len + 2
    IN /\ 55 < list_len /\ list_len < 256
       /\ 55 < string_len /\ string_len < 256
       /\ rlc_run.headers =
            {C34_Prefix(RLP_LONG, string_len) \o C34_Prefix(RLP_LIST_LONG, list_len)}
       /\ \A h \in rlc_run.headers :
            h[1] = RLP_LONG + 1 /\ h[3] = RLP_LIST_LONG + 1

\* The longest nonce and balance: a list of 132 bytes in a string of 134.
C34_Witness ==
  /\ rlc_run.done /\ rlc_run.kind = "header"
  /\ rlc_run.cells.nonce_num_bytes = HASH_WIDTH + 1
  /\ rlc_run.cells.balance_num_bytes = HASH_WIDTH + 1
  /\ rlc_run.headers = {<<184, 134, 248, 132>>}

\* The lookup row dedicated to the field of each proof type that modifies a
\* field; the other proof types have none.
C35_OwnRow ==
  [ is_nonce_mod |-> configure_lookup_offsets.nonce,
    is_balance_mod |-> configure_lookup_offsets.balance,
    is_storage_mod |-> configure_lookup_offsets.storage,
    is_codehash_mod |-> configure_lookup_offsets.codehash ]

\* The lookup rows on which value and value_prev of the MPT table differ.
C35_Differ ==
  {o \in LookupOffsets : account.mpt_table.value[o] # account.mpt_table.value_prev[o]}

\* C35: in an account leaf of a non-existence proof (account or storage)
\* value equals value_prev on each of the four lookup rows (+2..+5); for any
\* proof type other than account delete value equals value_prev on every
\* lookup row except the row of the field of that proof type.
C35_ValueEqualsValuePrev ==
  LET f == account.flags[0]
  IN (account.done /\ f.is_account_delete_mod = 0) =>
       /\ LookupOffsets = 2..5
       /\ (f.is_non_existing_account_proof = 1 \/ f.is_non_existing_storage_proof = 1)
            => C35_Differ = {}
       /\ \A pt \in DOMAIN C35_OwnRow : f[pt] = 1 => C35_Differ \subseteq {C35_OwnRow[pt]}
       /\ \A o \in C35_Differ : \E pt \in DOMAIN C35_OwnRow : f[pt] = 1 /\ C35_OwnRow[pt] = o

\* A non existing account proof whose nonce row holds the same RLC, not 0,
\* in value and value_prev, and whose balance row holds 0 in both.
C35_Witness ==
  /\ account.done /\ account.flags[0].is_non_existing_account_proof = 1
  /\ account.mpt_table.value[2] = 1 /\ account.mpt_table.value_prev[2] = 1
  /\ account.mpt_table.value[3] = 0 /\ account.mpt_table.value_prev[3] = 0

\* The row types with one predecessor that has to come right before them
\* and that they have to follow: the column of the current row and the
\* column of the previous row.
C36_Follows ==
  { <<"is_extension_node_s", "is_last_branch_child">>,
    <<"is_extension_node_c", "is_extension_node_s">>,
    <<"is_leaf_s_value", "is_leaf_s_key">>,
    <<"is_leaf_c_key", "is_leaf_s_value">>,
    <<"is_leaf_c_value", "is_leaf_c_key">>,
    <<"is_leaf_in_added_branch", "is_leaf_c_value">>,
    <<is_leaf_non_existing, "is_leaf_in_added_branch">> }

\* C36: on every non-first row the row is an extension node S row if and
\* only if the previous row has is_last_branch_child set, an extension node
\* C row if and only if the previous row is an extension node S row, and a
\* storage leaf value S, key C, value C, in added branch, non existing row
\* if and only if the previous row is the storage leaf key S, value S, key
\* C, value C, in added branch row: a storage leaf that has started is
\* completed in order.
C36_RowIffPredecessor ==
  (cur.q_enable = 1 /\ cur.q_not_first = 1) =>
    \A pair \in C36_Follows : cur[pair[1]] = 1 <=> prev[pair[2]] = 1

\* The last row of a storage leaf, after its in added branch row.
C36_Witness ==
  /\ cur.q_enable = 1 /\ cur.q_not_first = 1
  /\ cur[is_leaf_non_existing] = 1 /\ prev.is_leaf_in_added_branch = 1
  /\ cur.is_extension_node_s = 0 /\ prev.is_last_branch_child = 0
====
